---- MODULE Spec2Model ----
(***************************************************************************)
(* Token compiler of the Airtime design system (scripts/generate.js, held  *)
(* in src/scripts/generate-rules.js from line 861 on): alias resolution    *)
(* across the three tiers, CSS emission, the modern-CSS generators and the *)
(* assembly of the stylesheet.                                             *)
(*                                                                         *)
(* Text is a sequence of chunks.  Every character the code's regular       *)
(* expressions and prefix tests look at ("{", "}", ":", ";", "-", ".",     *)
(* ",", "#", " ") is a chunk of its own; any other chunk is an atomic run  *)
(* of characters none of which is one of those.                            *)
(*                                                                         *)
(* A JSON value is a tagged record:                                        *)
(*    [k |-> "num", n |-> 8]            a number                           *)
(*    [k |-> "str", s |-> <<...>>]      a string (a Text)                  *)
(*    [k |-> "obj", e |-> <<...>>]      an object: its entries in order,   *)
(*                                      each [key |-> "..", val |-> value] *)
(*    [k |-> "arr", a |-> <<...>>]      an array of values                 *)
(*                                                                         *)
(* Outside the model: token paths that name a member of Object.prototype   *)
(* (refMap["constructor"] is not undefined), keys that are integer indices *)
(* (Object.keys puts them first), values with a line break, booleans and   *)
(* null.                                                                   *)
(***************************************************************************)
EXTENDS Integers, Sequences, FiniteSets, TLC

\* ------------------------------------------------------------------ bounds

\* Call-stack frames available to the recursive resolvers before the engine
\* raises RangeError (engine dependent; larger than any acyclic chain here).
StackDepth == 8

\* Longest semantic token list of a token source.
MaxSemantic == 2

\* Longest token value, in pieces (a word, an alias or a lone brace), of the
\* resolver runs.
MaxPieces == 2

\* ------------------------------------------------------------------- text

Num(n) == [k |-> "num", n |-> n]
Str(t) == [k |-> "str", s |-> t]
Obj(e) == [k |-> "obj", e |-> e]
Arr(a) == [k |-> "arr", a |-> a]

RECURSIVE Join(_, _)
\* Array.prototype.join on an array of texts.
Join(texts, sep) ==
    IF texts = <<>> THEN <<>>
    ELSE IF Len(texts) = 1 THEN texts[1]
    ELSE texts[1] \o sep \o Join(Tail(texts), sep)

StartsWith(t, p) ==
    Len(t) >= Len(p) /\ SubSeq(t, 1, Len(p)) = p

Includes(t, c) ==
    \E i \in 1..Len(t) : t[i] = c

HasBrace(t) ==
    Includes(t, "{") \/ Includes(t, "}")

RECURSIVE JSString(_)
\* String(v): a number prints its digits, a string is itself, a plain object
\* prints "[object Object]", an array prints its elements joined by ",".
JSString(v) ==
    CASE v.k = "num" -> <<ToString(v.n)>>
      [] v.k = "str" -> v.s
      [] v.k = "obj" -> <<"[object Object]">>
      [] v.k = "arr" -> Join([i \in 1..Len(v.a) |-> JSString(v.a[i])], <<",">>)

Whitespace == {" ", "\n"}

RECURSIVE trimStart(_)
trimStart(t) ==
    IF t # <<>> /\ t[1] \in Whitespace THEN trimStart(Tail(t)) ELSE t

RECURSIVE trimEnd(_)
trimEnd(t) ==
    IF t # <<>> /\ t[Len(t)] \in Whitespace
    THEN trimEnd(SubSeq(t, 1, Len(t) - 1))
    ELSE t

\* String.prototype.trim
trim(t) == trimEnd(trimStart(t))

\* ------------------------------------------------------------- arithmetic
\* The converter computes in IEEE doubles.  Here a real number is an integer
\* count of 10^-8 (Unit is 1.0), kept in two limbs of four decimal digits so
\* that no intermediate product leaves 32 bits; every operation truncates, so
\* a result is within a few 10^-7 of the double the code holds.  An angle is
\* an integer count of 10^-6 degrees.

Limb == 100 * 100

Unit == Limb * Limb

Abs(x) == IF x < 0 THEN -x ELSE x

Sign(x) == IF x < 0 THEN -1 ELSE 1

\* a * b of two non-negative numbers.
MulAbs(a, b) ==
    LET ah == a \div Limb
        al == a % Limb
        bh == b \div Limb
        bl == b % Limb
    IN  ah * bh + (ah * bl + al * bh + (al * bl) \div Limb) \div Limb

Mul(a, b) == Sign(a) * Sign(b) * MulAbs(Abs(a), Abs(b))

RECURSIVE Pow10(_)
Pow10(k) == IF k = 0 THEN 1 ELSE 10 * Pow10(k - 1)

RECURSIVE Decimals(_, _, _)
\* The first k decimals of r / d (0 <= r < d), as an integer.
Decimals(r, d, k) ==
    IF k = 0 THEN 0
    ELSE LET rest == Decimals((r * 10) % d, d, k - 1)
         IN  ((r * 10) \div d) * Pow10(k - 1) + rest

\* n / d of two non-negative integers (or of two numbers), d > 0.
Ratio(n, d) == (n \div d) * Unit + Decimals(n % d, d, 8)

\* A decimal literal of the source with up to ten decimals: whole.frac8 and
\* two further decimals, as the number and what is left of it.
Dec(sign, frac8, frac2) == [sign |-> sign, n |-> frac8, rest |-> frac2]

\* c * x of a literal c and a number x.
Times(c, x) ==
    c.sign * Sign(x) * (MulAbs(c.n, Abs(x)) + (c.rest * (Abs(x) \div Limb)) \div 1000000)

RECURSIVE Power(_, _)
\* y ^ k of a non-negative number, k >= 1.
Power(y, k) == IF k = 1 THEN y ELSE MulAbs(y, Power(y, k - 1))

RECURSIVE RootIn(_, _, _, _)
\* The least y in lo+1..hi with y ^ k >= v, given lo ^ k < v <= hi ^ k.
RootIn(lo, hi, v, k) ==
    IF hi - lo <= 1 THEN hi
    ELSE LET mid == lo + (hi - lo) \div 2
         IN  IF Power(mid, k) < v THEN RootIn(mid, hi, v, k)
             ELSE RootIn(lo, mid, v, k)

\* The k-th root of a number v in 0..4 (k = 2, 3) or in 0..1 (k = 5).
Root(v, k) ==
    IF v = 0 THEN 0 ELSE RootIn(0, IF k = 5 THEN Unit ELSE 2 * Unit, v, k)

\* sqrt(a * a + b * b), taken as m * sqrt(1 + (n / m)^2) with m the larger of
\* |a|, |b| so that a small vector keeps its digits.
Hypot(a, b) ==
    LET m == IF Abs(a) >= Abs(b) THEN Abs(a) ELSE Abs(b)
        n == IF Abs(a) >= Abs(b) THEN Abs(b) ELSE Abs(a)
    IN  IF m = 0 THEN 0
        ELSE MulAbs(m, Root(Unit + Power(Ratio(n, m), 2), 2))

Halvings == 22

\* The vector (x, y) brought to length 1, len being its length.
Scaled(x, y, len) == <<Ratio(x, len), Ratio(y, len)>>

\* The unit vector half way between the unit vectors lo and hi.
Bisector(lo, hi) ==
    Scaled(lo[1] + hi[1], lo[2] + hi[2], Hypot(lo[1] + hi[1], lo[2] + hi[2]))

RECURSIVE AngleIn(_, _, _, _, _)
RECURSIVE AngleAround(_, _, _, _, _, _)
\* The angle from the unit vector lo to the direction d, which lies between
\* lo and the unit vector hi, span apart: found by halving the span k times.
AngleIn(lo, hi, span, d, k) ==
    IF k = 0 THEN 0
    ELSE AngleAround(lo, Bisector(lo, hi), hi, span \div 2, d, k)

\* The same, mid being half way between lo and hi, each half apart from it.
AngleAround(lo, mid, hi, half, d, k) ==
    IF MulAbs(mid[1], d[2]) >= MulAbs(mid[2], d[1])
    THEN half + AngleIn(mid, hi, half, d, k - 1)
    ELSE AngleIn(lo, mid, half, d, k - 1)

\* The angle in 0..90 degrees of a vector (x, y) with x > 0 and y >= 0.
Angle(x, y) ==
    AngleIn(<<Unit, 0>>, <<0, Unit>>, 90000000,
            Scaled(x, y, IF x >= y THEN x ELSE y), Halvings)

\* Math.atan2(b, a) * (180 / Math.PI), in -180..180 degrees.
atan2Degrees(b, a) ==
    IF a > 0 /\ b >= 0 THEN Angle(a, b)
    ELSE IF a <= 0 /\ b > 0 THEN 90000000 + Angle(b, -a)
    ELSE IF a < 0 /\ b = 0 THEN 180000000
    ELSE IF a < 0 /\ b < 0 THEN Angle(-a, -b) - 180000000
    ELSE IF a >= 0 /\ b < 0 THEN Angle(-b, a) - 90000000
    ELSE 0

\* c <= 0.04045 ? c / 12.92 : Math.pow((c + 0.055) / 1.055, 2.4), the power
\* taken as t^2 * (t^2)^(1/5).
\* u^1.2, u being a square: Math.pow(t, 2.4) of its root t.
Pow12(u) == MulAbs(u, Root(u, 5))

srgbToLinear(c) ==
    IF c <= 4045000 THEN Sign(c) * ((Abs(c) * 100) \div 1292)
    ELSE Pow12(Power(Ratio(c + 5500000, 105500000), 2))

linearRGBToXYZ(lr, lg, lb) ==
    <<Times(Dec(1, 41245640, 0), lr) + Times(Dec(1, 35757610, 0), lg)
        + Times(Dec(1, 18043750, 0), lb),
      Times(Dec(1, 21267290, 0), lr) + Times(Dec(1, 71515220, 0), lg)
        + Times(Dec(1, 7217500, 0), lb),
      Times(Dec(1, 1933390, 0), lr) + Times(Dec(1, 11919200, 0), lg)
        + Times(Dec(1, 95030410, 0), lb)>>

\* Math.cbrt
cbrt(v) == Sign(v) * Root(Abs(v), 3)

\* LMS' to OKLab (the M2 matrix).
lmsToOKLab(l, m, s) ==
    <<Times(Dec(1, 21045425, 53), l) + Times(Dec(1, 79361778, 50), m)
        + Times(Dec(-1, 407204, 68), s),
      Times(Dec(1, 197799849, 51), l) + Times(Dec(-1, 242859220, 50), m)
        + Times(Dec(1, 45059370, 99), s),
      Times(Dec(1, 2590403, 71), l) + Times(Dec(1, 78277176, 62), m)
        + Times(Dec(-1, 80867576, 60), s)>>

\* XYZ to LMS (the M1 matrix), the cube roots, LMS' to OKLab.
xyzToOKLab(x, y, z) ==
    lmsToOKLab(cbrt(Times(Dec(1, 81893301, 1), x) + Times(Dec(1, 36186674, 24), y)
                    + Times(Dec(-1, 12885971, 37), z)),
               cbrt(Times(Dec(1, 3298454, 36), x) + Times(Dec(1, 92931187, 15), y)
                    + Times(Dec(1, 3614563, 87), z)),
               cbrt(Times(Dec(1, 4820030, 18), x) + Times(Dec(1, 26436626, 91), y)
                    + Times(Dec(1, 63385170, 70), z)))

\* if (H < 0) H += 360
Turned(H) == IF H < 0 THEN H + 360000000 ELSE H

oklabToOKLCH(L, a, b) == <<L, Hypot(a, b), Turned(atan2Degrees(b, a))>>

\* Math.round(num * 10^places) of a number whose unit is 10^-digits: the
\* count of 10^-places, halves rounded up.
round(num, digits, places) ==
    (num + (Pow10(digits - places) \div 2)) \div Pow10(digits - places)

RECURSIVE Fraction(_, _)
\* The k decimals of n / 10^k without the trailing zeros, a chunk each.
Fraction(n, k) ==
    IF n = 0 THEN <<>>
    ELSE <<ToString(n \div Pow10(k - 1))>> \o Fraction(n % Pow10(k - 1), k - 1)

\* String(n / 10^places): the text of a number that has places decimals.
NumberText(n, places) ==
    (IF n < 0 THEN <<"-">> ELSE <<>>)
    \o <<ToString(Abs(n) \div Pow10(places))>>
    \o (IF Abs(n) % Pow10(places) = 0 THEN <<>>
        ELSE <<".">> \o Fraction(Abs(n) % Pow10(places), places))

\* ------------------------------------------------------------- the lookup

\* path.join('.')
DotPath(path) == Join(path, <<".">>)

RECURSIVE refMapOf(_)
\* buildRefMap: later tokens of the list overwrite earlier ones with the
\* same dot-path.
refMapOf(tokens) ==
    IF tokens = <<>> THEN <<>>
    ELSE LET rest == refMapOf(SubSeq(tokens, 1, Len(tokens) - 1))
             t    == tokens[Len(tokens)]
             key  == DotPath(t.path)
         IN  [x \in (DOMAIN rest) \cup {key} |->
                 IF x = key THEN t.value ELSE rest[x]]

EmptyMap == refMapOf(<<>>)

buildRefMap(allTokens) == refMapOf(allTokens)

\* { ...a, ...b }
Spread(a, b) ==
    [x \in (DOMAIN a) \cup (DOMAIN b) |-> IF x \in DOMAIN b THEN b[x] ELSE a[x]]

\* ----------------------------------------------------------- the resolver

\* Index of the first "}" of s at or after i, 0 when there is none.
NextClose(s, i) ==
    IF \E j \in i..Len(s) : s[j] = "}"
    THEN CHOOSE j \in i..Len(s) : s[j] = "}" /\ \A m \in i..(j - 1) : s[m] # "}"
    ELSE 0

\* value.match(/^\{([^}]+)\}$/)
IsFullRef(s) ==
    /\ Len(s) >= 3
    /\ s[1] = "{"
    /\ NextClose(s, 2) = Len(s)

Overflow == [ok |-> FALSE, v |-> Str(<<>>), w |-> <<>>]

RECURSIVE replaceFrom(_, _, _, _)
RECURSIVE resolveRefs(_, _, _)
RECURSIVE deepResolveRefs(_, _, _)
RECURSIVE resolveEntries(_, _, _)

\* replaceFrom with an unresolved reference dropped from the text.
RECURSIVE replaceFrom_dropUnresolved(_, _, _, _)
replaceFrom_dropUnresolved(s, i, refMap, depth) ==
    IF i > Len(s) THEN [ok |-> TRUE, t |-> <<>>, w |-> <<>>]
    ELSE
      LET j == IF s[i] = "{" THEN NextClose(s, i + 1) ELSE 0
      IN  IF j > i + 1
          THEN LET ref  == SubSeq(s, i + 1, j - 1)
                   here == IF ref \notin DOMAIN refMap
                           THEN [ok |-> TRUE, t |-> <<>>, w |-> <<ref>>]
                           ELSE LET r == resolveRefs(Str(JSString(refMap[ref])),
                                                     refMap, depth - 1)
                                IN  [ok |-> r.ok, t |-> r.v.s, w |-> r.w]
                   rest == replaceFrom_dropUnresolved(s, j + 1, refMap, depth)
               IN  IF ~here.ok THEN [ok |-> FALSE, t |-> <<>>, w |-> here.w]
                   ELSE [ok |-> rest.ok, t |-> here.t \o rest.t,
                         w |-> here.w \o rest.w]
          ELSE LET rest == replaceFrom_dropUnresolved(s, i + 1, refMap, depth)
               IN  [ok |-> rest.ok, t |-> <<s[i]>> \o rest.t, w |-> rest.w]

\* replaceFrom with the looked-up value inserted as it is stored, not resolved.
RECURSIVE replaceFrom_shallow(_, _, _, _)
replaceFrom_shallow(s, i, refMap, depth) ==
    IF i > Len(s) THEN [ok |-> TRUE, t |-> <<>>, w |-> <<>>]
    ELSE
      LET j == IF s[i] = "{" THEN NextClose(s, i + 1) ELSE 0
      IN  IF j > i + 1
          THEN LET ref  == SubSeq(s, i + 1, j - 1)
                   here == IF ref \notin DOMAIN refMap
                           THEN [ok |-> TRUE, t |-> <<"{">> \o ref \o <<"}">>,
                                 w |-> <<ref>>]
                           ELSE [ok |-> TRUE, t |-> JSString(refMap[ref]), w |-> <<>>]
                   rest == replaceFrom_shallow(s, j + 1, refMap, depth)
               IN  [ok |-> rest.ok, t |-> here.t \o rest.t, w |-> here.w \o rest.w]
          ELSE LET rest == replaceFrom_shallow(s, i + 1, refMap, depth)
               IN  [ok |-> rest.ok, t |-> <<s[i]>> \o rest.t, w |-> rest.w]

\* value.replace(/\{([^}]+)\}/g, callback) from position i on: the text that
\* replaces s[i..], the warnings printed, and whether the stack held.
replaceFrom(s, i, refMap, depth) ==
    IF i > Len(s) THEN [ok |-> TRUE, t |-> <<>>, w |-> <<>>]
    ELSE
      LET j == IF s[i] = "{" THEN NextClose(s, i + 1) ELSE 0
      IN  IF j > i + 1
          THEN LET ref  == SubSeq(s, i + 1, j - 1)
                   here == IF ref \notin DOMAIN refMap
                           THEN [ok |-> TRUE, t |-> <<"{">> \o ref \o <<"}">>,
                                 w |-> <<ref>>]
                           ELSE LET r == resolveRefs(Str(JSString(refMap[ref])),
                                                     refMap, depth - 1)
                                IN  [ok |-> r.ok, t |-> r.v.s, w |-> r.w]
                   rest == replaceFrom(s, j + 1, refMap, depth)
               IN  IF ~here.ok THEN [ok |-> FALSE, t |-> <<>>, w |-> here.w]
                   ELSE [ok |-> rest.ok, t |-> here.t \o rest.t,
                         w |-> here.w \o rest.w]
          ELSE LET rest == replaceFrom(s, i + 1, refMap, depth)
               IN  [ok |-> rest.ok, t |-> <<s[i]>> \o rest.t, w |-> rest.w]

resolveRefs(value, refMap, depth) ==
    IF depth <= 0 THEN Overflow
    ELSE IF value.k = "str"
         THEN LET r == replaceFrom(value.s, 1, refMap, depth)
              IN  IF r.ok THEN [ok |-> TRUE, v |-> Str(r.t), w |-> r.w]
                  ELSE Overflow
         ELSE [ok |-> TRUE, v |-> value, w |-> <<>>]

\* deepResolveRefs with a full-value alias substituted as text, like any other.
deepResolveRefs_stringified(value, refMap, depth) ==
    IF depth <= 0 THEN Overflow
    ELSE IF value.k = "str" THEN resolveRefs(value, refMap, depth - 1)
    ELSE IF value.k = "obj"
         THEN LET r == resolveEntries(value.e, refMap, depth - 1)
              IN  IF r.ok THEN [ok |-> TRUE, v |-> Obj(r.e), w |-> r.w]
                  ELSE Overflow
    ELSE [ok |-> TRUE, v |-> value, w |-> <<>>]

deepResolveRefs(value, refMap, depth) ==
    IF depth <= 0 THEN Overflow
    ELSE IF value.k = "str"
         THEN IF IsFullRef(value.s)
              THEN LET ref == SubSeq(value.s, 2, Len(value.s) - 1)
                   IN  IF ref \notin DOMAIN refMap
                       THEN [ok |-> TRUE, v |-> value, w |-> <<ref>>]
                       ELSE deepResolveRefs(refMap[ref], refMap, depth - 1)
              ELSE resolveRefs(value, refMap, depth - 1)
    ELSE IF value.k = "obj"
         THEN LET r == resolveEntries(value.e, refMap, depth - 1)
              IN  IF r.ok THEN [ok |-> TRUE, v |-> Obj(r.e), w |-> r.w]
                  ELSE Overflow
    ELSE [ok |-> TRUE, v |-> value, w |-> <<>>]

\* for (const [k, v] of Object.entries(value)) resolved[k] = deepResolveRefs(v)
resolveEntries(entries, refMap, depth) ==
    IF entries = <<>> THEN [ok |-> TRUE, e |-> <<>>, w |-> <<>>]
    ELSE LET first == deepResolveRefs(entries[1].val, refMap, depth)
             rest  == resolveEntries(Tail(entries), refMap, depth)
         IN  IF ~first.ok THEN [ok |-> FALSE, e |-> <<>>, w |-> first.w]
             ELSE [ok |-> rest.ok,
                   e  |-> <<[key |-> entries[1].key, val |-> first.v]>> \o rest.e,
                   w  |-> first.w \o rest.w]


\* tokens.map(t => ({ ...t, $value: deepResolveRefs(t.$value, refMap) })): the
\* run dies at the first token whose resolution exhausts the stack.
RECURSIVE resolveEach(_, _)
resolveEach(tokens, refMap) ==
    IF tokens = <<>> THEN [ok |-> TRUE, tokens |-> <<>>, w |-> <<>>]
    ELSE LET first == deepResolveRefs(tokens[1].value, refMap, StackDepth)
             rest  == resolveEach(Tail(tokens), refMap)
         IN  IF ~first.ok \/ ~rest.ok
             THEN [ok |-> FALSE, tokens |-> <<>>, w |-> <<>>]
             ELSE [ok |-> TRUE,
                   tokens |-> <<[tokens[1] EXCEPT !.value = first.v]>> \o rest.tokens,
                   w |-> first.w \o rest.w]

\* A tier resolved against a lookup that also holds the tier's own tokens.
resolveTierTokens_ownTier(tokens, refMap) ==
    resolveEach(tokens, Spread(refMap, refMapOf(tokens)))

\* resolveTierTokens: every token of the tier resolved against refMap.
resolveTierTokens(tokens, refMap) ==
    resolveEach(tokens, refMap)

\* ------------------------------------------------------------ CSS values

Field(value, key) ==
    IF value.k = "obj" /\ \E i \in 1..Len(value.e) : value.e[i].key = key
    THEN JSString(value.e[CHOOSE i \in 1..Len(value.e) :
                            /\ value.e[i].key = key
                            /\ \A m \in (i + 1)..Len(value.e) : value.e[m].key # key].val)
    ELSE <<"undefined">>

formatDTCGValue(value, type) ==
    IF type = "shadow" /\ value.k \in {"obj", "arr"}
    THEN Field(value, "offsetX") \o <<" ">> \o Field(value, "offsetY") \o <<" ">>
         \o Field(value, "blur") \o <<" ">> \o Field(value, "spread") \o <<" ">>
         \o Field(value, "color")
    ELSE IF type = "cubicBezier"
    THEN IF value.k = "arr"
         THEN <<"cubic-bezier(">>
              \o Join([i \in 1..Len(value.a) |-> JSString(value.a[i])], <<",", " ">>)
              \o <<")">>
         ELSE JSString(value)
    ELSE IF type = "duration" /\ value.k = "num"
    THEN <<ToString(value.n), "ms">>
    ELSE JSString(value)

cssVar(name, value) ==
    <<" ", " ", "-", "-">> \o name \o <<":", " ">> \o value \o <<";">>

\* -------------------------------------------------- color-space conversion

HexDigits ==
    {"0", "1", "2", "3", "4", "5", "6", "7", "8", "9",
     "a", "b", "c", "d", "e", "f", "A", "B", "C", "D", "E", "F"}

\* /^\s*oklch\s*\(/ : a color that is already in oklch() syntax.
isOklchValue(value) ==
    LET t == trimStart(value)
    IN  /\ t # <<>>
        /\ \/ t[1] = "oklch("
           \/ /\ t[1] = "oklch"
              /\ trimStart(Tail(t)) # <<>>
              /\ trimStart(Tail(t))[1] = "("

\* /^#([0-9a-fA-F]{3,8})$/ on the trimmed value, or oklch(): a color text (a
\* character of a hex color is a chunk).
isColorValue(value) ==
    \/ /\ Len(trim(value)) \in 4..9
       /\ trim(value)[1] = "#"
       /\ \A i \in 2..Len(trim(value)) : trim(value)[i] \in HexDigits
    \/ isOklchValue(value)

HexLower == <<"0", "1", "2", "3", "4", "5", "6", "7", "8", "9",
              "a", "b", "c", "d", "e", "f">>

HexUpper == <<"0", "1", "2", "3", "4", "5", "6", "7", "8", "9",
              "A", "B", "C", "D", "E", "F">>

HexValue(c) == (CHOOSE i \in 1..16 : c \in {HexLower[i], HexUpper[i]}) - 1

NaN == <<>>

RECURSIVE HexPrefix(_, _)
\* The number the leading hex digits of t spell after the digits that gave
\* acc, NaN when there is no digit at all (seen = FALSE in acc).
HexPrefix(t, acc) ==
    IF t # <<>> /\ t[1] \in HexDigits
    THEN HexPrefix(Tail(t), <<16 * (IF acc = NaN THEN 0 ELSE acc[1]) + HexValue(t[1])>>)
    ELSE acc

\* The text after a sign, if it starts with one.
Unsigned(t) == IF t # <<>> /\ t[1] \in {"+", "-"} THEN Tail(t) ELSE t

\* The text after a 0x or 0X prefix, if it starts with one.
Unprefixed(u) ==
    IF Len(u) >= 2 /\ u[1] = "0" /\ u[2] \in {"x", "X"}
    THEN SubSeq(u, 3, Len(u)) ELSE u

\* n or -n, NaN staying NaN.
Negated(n, minus) == IF n # NaN /\ minus THEN <<-n[1]>> ELSE n

\* parseInt of a text without leading white space.
parseInt16From(t) ==
    Negated(HexPrefix(Unprefixed(Unsigned(t)), NaN), t # <<>> /\ t[1] = "-")

\* parseInt(text, 16): leading white space is skipped, a sign and a 0x prefix
\* are taken, then the longest run of hex digits; what follows is ignored.
parseInt16(text) == parseInt16From(trimStart(text))

\* parseInt(h[i] + h[i], 16) and parseInt(h.slice(i, i + 2), 16).
Twice(h, i) == parseInt16(<<h[i], h[i]>>)

Pair(h, i) == parseInt16(<<h[i], h[i + 1]>>)

\* if (isNaN(r) || isNaN(g) || isNaN(b) || isNaN(a)) return null
Numbers(rgba) ==
    IF \E i \in 1..4 : rgba[i] = NaN THEN <<>>
    ELSE <<rgba[1][1], rgba[2][1], rgba[3][1], rgba[4][1]>>

\* parseHex after hex.slice(1).
hexDigitsToRGBA(h) ==
    IF Len(h) = 3 THEN Numbers(<<Twice(h, 1), Twice(h, 2), Twice(h, 3), <<255>> >>)
    ELSE IF Len(h) = 4
    THEN Numbers(<<Twice(h, 1), Twice(h, 2), Twice(h, 3), Twice(h, 4)>>)
    ELSE IF Len(h) = 6 THEN Numbers(<<Pair(h, 1), Pair(h, 3), Pair(h, 5), <<255>> >>)
    ELSE IF Len(h) = 8
    THEN Numbers(<<Pair(h, 1), Pair(h, 3), Pair(h, 5), Pair(h, 7)>>)
    ELSE <<>>

\* parseHex after hex.trim().
trimmedToRGBA(hex) ==
    IF hex = <<>> \/ hex[1] # "#" THEN <<>> ELSE hexDigitsToRGBA(Tail(hex))

\* parseHex: [r, g, b, a] of a 3, 4, 6 or 8 character hex color, else null
\* (<<>>).
parseHex(text) == trimmedToRGBA(trim(text))

\* r8 / 255 and the like.
Over255(n) == Sign(n) * Ratio(Abs(n), 255)

\* The text hexToOklch builds from Lch, C, H and the alpha byte.
oklchText(Lch, C, H, a8) ==
    LET Lpct == round(Lch, 8, 4)
        Cround == round(C, 8, 4)
        Hround == round(H, 6, 1)
        isAchromatic == Cround < 5
        chromaStr == IF isAchromatic THEN <<"0">> ELSE NumberText(Cround, 4)
        hueStr == IF isAchromatic THEN <<"none">> ELSE NumberText(Hround, 1)
        alphaRound == (a8 * 200 + 255) \div 510
    IN  <<"oklch(">> \o NumberText(Lpct, 2) \o <<"%", " ">> \o chromaStr
        \o <<" ">> \o hueStr
        \o (IF a8 < 255 THEN <<" ", "/", " ">> \o NumberText(alphaRound, 2) ELSE <<>>)
        \o <<")">>

\* hexToOklch from each stage on: OKLCH, OKLab, XYZ, the parsed bytes.
lchToText(lch, a8) == oklchText(lch[1], lch[2], lch[3], a8)

labToText(lab, a8) == lchToText(oklabToOKLCH(lab[1], lab[2], lab[3]), a8)

xyzToText(xyz, a8) == labToText(xyzToOKLab(xyz[1], xyz[2], xyz[3]), a8)

parsedToText(parsed) ==
    IF parsed = <<>> THEN <<>>
    ELSE xyzToText(linearRGBToXYZ(srgbToLinear(Over255(parsed[1])),
                                  srgbToLinear(Over255(parsed[2])),
                                  srgbToLinear(Over255(parsed[3]))),
                   parsed[4])

hexToOklch(hex) == parsedToText(parseHex(hex))

\* The colors of the token sources below.
Teal  == Str(<<"#", "7", "9", "D", "D", "E", "8">>)
White == Str(<<"#", "F", "F", "F">>)
Black == Str(<<"#", "0", "0", "0">>)

SourceColors == {Teal.s, White.s, Black.s}

\* hexToOklch of the colors of the token sources, worked out once: it is a
\* function of its argument alone, and a constant is evaluated a single time.
Converted == [hex \in SourceColors |-> hexToOklch(hex)]

toOklch(value) ==
    IF isOklchValue(value) THEN trim(value)
    ELSE IF value \in SourceColors THEN Converted[value]
    ELSE hexToOklch(value)

\* ---------------------------------------------------- three-tier generators

MapSeq(seq, Op(_)) == [i \in 1..Len(seq) |-> Op(seq[i])]

RECURSIVE Flatten(_)
Flatten(seqs) ==
    IF seqs = <<>> THEN <<>> ELSE seqs[1] \o Flatten(Tail(seqs))

\* t.path[i], which is undefined past the end of the path.
Seg(path, i) == IF i \in 1..Len(path) THEN path[i] ELSE <<"undefined">>

LastSeg(path) == Seg(path, Len(path))

\* The property name of a token that is named by its whole path: the path's
\* segments joined by "-", the trailing mode segment popped for a token that
\* carries a mode.
ModeName(t) ==
    IF t.mode \in {"dark", "light"}
    THEN Join(SubSeq(t.path, 1, Len(t.path) - 1), <<"-">>)
    ELSE Join(t.path, <<"-">>)

ModeBucket(t) == IF t.mode \in {"dark", "light"} THEN t.mode ELSE "root"

\* The { propName, hex, oklch, bucket } entries of a list of tokens.
OklchEntries(tokens, oklchOn) ==
    LET Conv(t) ==
          LET cssValue == formatDTCGValue(t.value, t.type)
          IN  IF /\ oklchOn
                 /\ t.type = "color"
                 /\ isColorValue(cssValue)
                 /\ toOklch(cssValue) # <<>>
              THEN <<[propName |-> ModeName(t), hex |-> cssValue,
                      oklch |-> toOklch(cssValue), bucket |-> ModeBucket(t)]>>
              ELSE <<>>
    IN  Flatten(MapSeq(tokens, Conv))

\* ModeEmit declaring, with --oklch, the converted value in the place of a
\* convertible source value.
ModeEmit_convertedInPlace(tokens, oklchOn) ==
    LET Shown(t) ==
          IF /\ oklchOn
             /\ t.type = "color"
             /\ isColorValue(formatDTCGValue(t.value, t.type))
             /\ toOklch(formatDTCGValue(t.value, t.type)) # <<>>
          THEN toOklch(formatDTCGValue(t.value, t.type))
          ELSE formatDTCGValue(t.value, t.type)
        Line(t) == cssVar(ModeName(t), Shown(t))
    IN  [root  |-> MapSeq(SelectSeq(tokens, LAMBDA t : ModeBucket(t) = "root"), Line),
         light |-> MapSeq(SelectSeq(tokens, LAMBDA t : t.mode = "light"), Line),
         dark  |-> MapSeq(SelectSeq(tokens, LAMBDA t : t.mode = "dark"), Line),
         oklchColors |-> OklchEntries(tokens, oklchOn)]

\* The loop shared by generateThreeTierColors and generateThreeTierCatchAll.
ModeEmit(tokens, oklchOn) ==
    LET Line(t) == cssVar(ModeName(t), formatDTCGValue(t.value, t.type))
    IN  [root  |-> MapSeq(SelectSeq(tokens, LAMBDA t : ModeBucket(t) = "root"), Line),
         light |-> MapSeq(SelectSeq(tokens, LAMBDA t : t.mode = "light"), Line),
         dark  |-> MapSeq(SelectSeq(tokens, LAMBDA t : t.mode = "dark"), Line),
         oklchColors |-> OklchEntries(tokens, oklchOn)]

RootOnly(lines) ==
    [root |-> lines, light |-> <<>>, dark |-> <<>>, oklchColors |-> <<>>]

\* A declaration named by the token's last path segment.
LastSegLine(t) == cssVar(LastSeg(t.path), formatDTCGValue(t.value, t.type))

\* A declaration named by the token's whole path.
PathLine(t) == cssVar(Join(t.path, <<"-">>), formatDTCGValue(t.value, t.type))

generateThreeTierColors(resolved, oklchOn) ==
    ModeEmit(SelectSeq(resolved, LAMBDA t : t.path[1] = <<"color">>), oklchOn)

generateThreeTierSizing(resolved) ==
    RootOnly(
      MapSeq(SelectSeq(resolved,
                       LAMBDA t : t.path[1] = <<"size">> /\ Len(t.path) = 2),
             LastSegLine)
      \o
      MapSeq(SelectSeq(resolved,
                       LAMBDA t : t.path[1] = <<"space">> /\ Len(t.path) = 2),
             LastSegLine))

generateThreeTierRadii(resolved) ==
    RootOnly(MapSeq(SelectSeq(resolved,
                              LAMBDA t : t.path[1] = <<"radius">> /\ Len(t.path) = 2),
                    LastSegLine))

generateThreeTierShadows(resolved) ==
    LET shadowTokens == SelectSeq(resolved, LAMBDA t : t.path[1] = <<"shadow">>)
        blurTokens   == SelectSeq(resolved, LAMBDA t : t.path[1] = <<"blur">>)
        Line(t) == cssVar(<<"shadow", "-">> \o Seg(t.path, 2),
                          formatDTCGValue(t.value, t.type))
    IN  [root  |-> MapSeq(SelectSeq(shadowTokens,
                                    LAMBDA t : t.mode \notin {"dark", "light"}), Line)
                   \o MapSeq(blurTokens, LastSegLine),
         light |-> MapSeq(SelectSeq(shadowTokens, LAMBDA t : t.mode = "light"), Line),
         dark  |-> MapSeq(SelectSeq(shadowTokens, LAMBDA t : t.mode = "dark"), Line),
         oklchColors |-> <<>>]

generateThreeTierBorders(resolved) ==
    RootOnly(MapSeq(SelectSeq(resolved, LAMBDA t : t.path[1] = <<"border">>),
                    PathLine))

generateThreeTierOpacity(resolved) ==
    RootOnly(MapSeq(SelectSeq(resolved, LAMBDA t : t.path[1] = <<"opacity">>),
                    LastSegLine))

generateThreeTierZIndex(resolved) ==
    RootOnly(MapSeq(SelectSeq(resolved, LAMBDA t : t.path[1] = <<"z">>),
                    LastSegLine))

generateThreeTierTransitions(resolved) ==
    RootOnly(
      MapSeq(SelectSeq(resolved, LAMBDA t : t.path[1] = <<"duration">>), LastSegLine)
      \o
      MapSeq(SelectSeq(resolved, LAMBDA t : t.path[1] = <<"easing">>), LastSegLine))

generateThreeTierCatchAll(tokens, oklchOn) == ModeEmit(tokens, oklchOn)

\* The distinct elements of a sequence in the order of their first occurrence.
RECURSIVE Distinct(_)
Distinct(keys) ==
    IF keys = <<>> THEN <<>>
    ELSE LET before == Distinct(SubSeq(keys, 1, Len(keys) - 1))
             key    == keys[Len(keys)]
         IN  IF \E i \in 1..Len(before) : before[i] = key
             THEN before ELSE Append(before, key)

\* Object.keys of an object filled by obj[KeyOf(t)] = t: the distinct keys in
\* the order of their first assignment (no key is an integer index).
KeysOf(tokens, KeyOf(_)) == Distinct(MapSeq(tokens, KeyOf))

\* obj[key] after the same loop: the last token assigned under the key.
LastWith(tokens, KeyOf(_), key) ==
    tokens[CHOOSE i \in 1..Len(tokens) :
             /\ KeyOf(tokens[i]) = key
             /\ \A m \in (i + 1)..Len(tokens) : KeyOf(tokens[m]) # key]

HasKey(tokens, KeyOf(_), key) ==
    \E i \in 1..Len(tokens) : KeyOf(tokens[i]) = key

\* The index a typography token is filed under, "" when it is filed nowhere.
TypoGroup(t) ==
    IF t.path[1] = <<"font">> /\ Seg(t.path, 2) = <<"family">> THEN "families"
    ELSE IF t.path[1] = <<"font">> /\ Seg(t.path, 2) = <<"weight">> THEN "weights"
    ELSE IF t.path[1] = <<"font">> /\ Seg(t.path, 2) = <<"size">> THEN "sizes"
    ELSE IF t.path[1] = <<"line", "-", "height">> THEN "lineHeights"
    ELSE IF t.path[1] = <<"font", "-", "weight", "-", "composite">>
         THEN "compositeWeights"
    ELSE ""

TypoKey(t) ==
    IF t.path[1] = <<"font">> THEN Seg(t.path, 3) ELSE Seg(t.path, 2)

generateThreeTierTypography(resolved) ==
    LET In(g) == SelectSeq(resolved, LAMBDA t : TypoGroup(t) = g)
        families == In("families")
        weights  == In("weights")
        sizes    == In("sizes")
        lineHeights      == In("lineHeights")
        compositeWeights == In("compositeWeights")
        Named(prefix, tokens, key) ==
            LET t == LastWith(tokens, TypoKey, key)
            IN  cssVar(prefix \o key, formatDTCGValue(t.value, t.type))
        Opt(prefix, tokens, key) ==
            IF HasKey(tokens, TypoKey, key)
            THEN <<Named(prefix, tokens, key)>> ELSE <<>>
        Style(name) ==
            Opt(<<"font", "-", "size", "-">>, sizes, name)
            \o Opt(<<"line", "-", "height", "-">>, lineHeights, name)
            \o Opt(<<"font", "-", "weight", "-">>, compositeWeights, name)
    IN  RootOnly(
          MapSeq(KeysOf(families, TypoKey),
                 LAMBDA key : Named(<<"font", "-", "family", "-">>, families, key))
          \o MapSeq(KeysOf(weights, TypoKey),
                    LAMBDA key : Named(<<"font", "-", "weight", "-">>, weights, key))
          \o Flatten(MapSeq(KeysOf(sizes, TypoKey), Style)))

standardPrefixes ==
    {<<"color">>, <<"shadow">>, <<"blur">>, <<"font">>, <<"line", "-", "height">>,
     <<"font", "-", "weight", "-", "composite">>, <<"size">>, <<"space">>,
     <<"radius">>, <<"border">>, <<"opacity">>, <<"z">>, <<"duration">>,
     <<"easing">>}

StandardNames ==
    << <<"colors">>, <<"sizing">>, <<"typography">>, <<"radii">>, <<"shadows">>,
       <<"borders">>, <<"opacity">>, <<"z", "-", "index">>, <<"transitions">> >>

TopGroup(t) == t.path[1]

\* The generator list without the catch-all generators.
GeneratorList_standardOnly(allResolved) ==
    MapSeq(StandardNames,
           LAMBDA n : [name |-> n, catchAll |-> FALSE, tokens |-> allResolved])

\* The generator list buildThreeTierGenerators returns: the nine standard
\* generators over allResolved, then one catch-all generator per leading
\* segment that is no standard prefix.
GeneratorList(allResolved) ==
    LET remainingTokens ==
            SelectSeq(allResolved, LAMBDA t : t.path[1] \notin standardPrefixes)
    IN  MapSeq(StandardNames,
               LAMBDA n : [name |-> n, catchAll |-> FALSE, tokens |-> allResolved])
        \o MapSeq(KeysOf(remainingTokens, TopGroup),
                  LAMBDA g : [name |-> g, catchAll |-> TRUE,
                              tokens |-> SelectSeq(remainingTokens,
                                                   LAMBDA t : t.path[1] = g)])

\* fn() of one entry of the generator list.
RunGenerator(g, oklchOn) ==
    IF g.catchAll THEN generateThreeTierCatchAll(g.tokens, oklchOn)
    ELSE CASE g.name = <<"colors">>      -> generateThreeTierColors(g.tokens, oklchOn)
           [] g.name = <<"sizing">>      -> generateThreeTierSizing(g.tokens)
           [] g.name = <<"typography">>  -> generateThreeTierTypography(g.tokens)
           [] g.name = <<"radii">>       -> generateThreeTierRadii(g.tokens)
           [] g.name = <<"shadows">>     -> generateThreeTierShadows(g.tokens)
           [] g.name = <<"borders">>     -> generateThreeTierBorders(g.tokens)
           [] g.name = <<"opacity">>     -> generateThreeTierOpacity(g.tokens)
           [] g.name = <<"z", "-", "index">> -> generateThreeTierZIndex(g.tokens)
           [] g.name = <<"transitions">> -> generateThreeTierTransitions(g.tokens)

\* ------------------------------------------------------ flat DTCG generators

\* What fn() of one generator gives: its result and the warnings it printed,
\* or the exception it threw.
Ran(r, w) == [ok |-> TRUE, r |-> r, w |-> w, e |-> "none"]

Threw(kind) == [ok |-> FALSE, r |-> RootOnly(<<>>), w |-> <<>>, e |-> kind]

generateDTCGColors(tokens, oklchOn) == ModeEmit(tokens, oklchOn)

generateDTCGSizing(tokens) == RootOnly(MapSeq(tokens, LastSegLine))

\* The tokens generateDTCGTypography files under one of its five indexes.
Indexed(allTokens, g) == SelectSeq(allTokens, LAMBDA t : TypoGroup(t) = g)

\* The font-weight line of one composite style, from what resolveRefs gave.
weightLine(name, wToken, res) ==
    [ok |-> res.ok, w |-> res.w,
     lines |-> <<cssVar(<<"font", "-", "weight", "-">> \o name,
                        formatDTCGValue(res.v, wToken.type))>>]

\* Step 3 of generateDTCGTypography, the weights: for each name of
\* Object.keys(sizes) that has a composite weight, the weight is resolved with
\* the lookup of the typography file itself.
compositeWeightLines(allTokens) ==
    LET compositeWeights == Indexed(allTokens, "compositeWeights")
        Weight(name) ==
            IF HasKey(compositeWeights, TypoKey, name)
            THEN weightLine(name, LastWith(compositeWeights, TypoKey, name),
                            resolveRefs(LastWith(compositeWeights, TypoKey, name).value,
                                        buildRefMap(allTokens), StackDepth))
            ELSE [ok |-> TRUE, w |-> <<>>, lines |-> <<>>]
    IN  MapSeq(KeysOf(Indexed(allTokens, "sizes"), TypoKey), Weight)

\* generateDTCGTypography, the composite weights being resolved as given.
typographyWith(allTokens, weighed) ==
    LET Entitled(prefix, tokens, key) ==
            LET t == LastWith(tokens, TypoKey, key)
            IN  cssVar(prefix \o key, formatDTCGValue(t.value, t.type))
        Opt(prefix, tokens, key) ==
            IF HasKey(tokens, TypoKey, key)
            THEN <<Entitled(prefix, tokens, key)>> ELSE <<>>
        compositeNames == KeysOf(Indexed(allTokens, "sizes"), TypoKey)
        Style(i) ==
            Opt(<<"font", "-", "size", "-">>, Indexed(allTokens, "sizes"),
                compositeNames[i])
            \o Opt(<<"line", "-", "height", "-">>, Indexed(allTokens, "lineHeights"),
                   compositeNames[i])
            \o weighed[i].lines
    IN  IF \E i \in 1..Len(weighed) : ~weighed[i].ok
        THEN Threw("RangeError")
        ELSE Ran(RootOnly(
                   MapSeq(KeysOf(Indexed(allTokens, "families"), TypoKey),
                          LAMBDA key : Entitled(<<"font", "-", "family", "-">>,
                                                Indexed(allTokens, "families"), key))
                   \o MapSeq(KeysOf(Indexed(allTokens, "weights"), TypoKey),
                             LAMBDA key : Entitled(<<"font", "-", "weight", "-">>,
                                                   Indexed(allTokens, "weights"), key))
                   \o Flatten([i \in 1..Len(weighed) |-> Style(i)])),
                 Flatten([i \in 1..Len(weighed) |-> weighed[i].w]))

generateDTCGTypography(allTokens) ==
    typographyWith(allTokens, compositeWeightLines(allTokens))

generateDTCGRadii(tokens) == RootOnly(MapSeq(tokens, LastSegLine))

generateDTCGShadows(tokens) ==
    LET Line(t) == cssVar(<<"shadow", "-">> \o Seg(t.path, 2),
                          formatDTCGValue(t.value, t.type))
        IsShadow(t) == t.path[1] = <<"shadow">>
        RootLine(t) == IF IsShadow(t) THEN Line(t) ELSE LastSegLine(t)
    IN  [root  |-> MapSeq(SelectSeq(tokens,
                            LAMBDA t : \/ IsShadow(t) /\ t.mode \notin {"dark", "light"}
                                       \/ t.path[1] = <<"blur">>),
                          RootLine),
         light |-> MapSeq(SelectSeq(tokens, LAMBDA t : IsShadow(t) /\ t.mode = "light"),
                          Line),
         dark  |-> MapSeq(SelectSeq(tokens, LAMBDA t : IsShadow(t) /\ t.mode = "dark"),
                          Line),
         oklchColors |-> <<>>]

generateDTCGBorders(tokens) == RootOnly(MapSeq(tokens, PathLine))

generateDTCGOpacity(tokens) == RootOnly(MapSeq(tokens, LastSegLine))

generateDTCGZIndex(tokens) == RootOnly(MapSeq(tokens, LastSegLine))

generateDTCGTransitions(tokens) == RootOnly(MapSeq(tokens, LastSegLine))

\* ------------------------------------------------------- legacy generators

\* A legacy file is an object of sections, each an object; a section is kept
\* as its entries { key, val } in file order (no key is an integer index, no
\* key occurs twice).
Section(data, name) == IF name \in DOMAIN data THEN data[name] ELSE <<>>

\* What reading a missing property gives, as text.
Undefined == Str(<<"undefined">>)

\* obj[key] of a section.
EntryOf(entries, key) ==
    IF \E i \in 1..Len(entries) : entries[i].key = key
    THEN entries[CHOOSE i \in 1..Len(entries) : entries[i].key = key].val
    ELSE Undefined

\* style.fontSize and the like: a property of a plain object.
Member(value, key) ==
    IF value.k = "obj" /\ \E i \in 1..Len(value.e) : value.e[i].key = key
    THEN value.e[CHOOSE i \in 1..Len(value.e) : value.e[i].key = key].val
    ELSE Undefined

\* n === 0 ? '0' : `${n}px`
pxVal(n) ==
    IF n.k = "num" /\ n.n = 0 THEN <<"0">> ELSE JSString(n) \o <<"px">>

EntryLine(prefix, e) == cssVar(prefix \o e.key, JSString(e.val))

PxLine(prefix, e) == cssVar(prefix \o e.key, pxVal(e.val))

\* The oklchColors entries of one section of colors.json.
LegacyOklch(entries, bucket, oklchOn) ==
    LET Conv(e) ==
          IF /\ oklchOn
             /\ e.val.k = "str"
             /\ isColorValue(e.val.s)
             /\ toOklch(e.val.s) # <<>>
          THEN <<[propName |-> <<"color", "-">> \o e.key, hex |-> e.val.s,
                  oklch |-> toOklch(e.val.s), bucket |-> bucket]>>
          ELSE <<>>
    IN  Flatten(MapSeq(entries, Conv))

generateColors(data, oklchOn) ==
    LET Line(e) == EntryLine(<<"color", "-">>, e)
    IN  [root  |-> MapSeq(Section(data, "shared"), Line),
         light |-> MapSeq(Section(data, "light"), Line),
         dark  |-> MapSeq(Section(data, "dark"), Line),
         oklchColors |-> LegacyOklch(Section(data, "dark"), "dark", oklchOn)
                         \o LegacyOklch(Section(data, "light"), "light", oklchOn)
                         \o LegacyOklch(Section(data, "shared"), "root", oklchOn)]

generateSizing(data) ==
    RootOnly(MapSeq(Section(data, "size"), LAMBDA e : PxLine(<<>>, e))
             \o MapSeq(Section(data, "space"), LAMBDA e : PxLine(<<>>, e)))

generateTypography(data) ==
    LET Style(e) ==
          <<cssVar(<<"font", "-", "size", "-">> \o e.key,
                   pxVal(Member(e.val, "fontSize"))),
            cssVar(<<"line", "-", "height", "-">> \o e.key,
                   pxVal(Member(e.val, "lineHeight"))),
            cssVar(<<"font", "-", "weight", "-">> \o e.key,
                   JSString(EntryOf(Section(data.primitive, "weight"),
                                   JSString(Member(e.val, "fontWeight")))))>>
    IN  RootOnly(
          MapSeq(Section(data.primitive, "family"),
                 LAMBDA e : EntryLine(<<"font", "-", "family", "-">>, e))
          \o MapSeq(Section(data.primitive, "weight"),
                    LAMBDA e : EntryLine(<<"font", "-", "weight", "-">>, e))
          \o Flatten(MapSeq(Section(data, "composite"), Style)))

generateRadii(data) ==
    RootOnly(MapSeq(Section(data, "radius"), LAMBDA e : PxLine(<<>>, e)))

levels == << <<"small">>, <<"medium">>, <<"large">> >>

generateShadows(data) ==
    LET Template(level) ==
          LET geo == EntryOf(Section(data, "geometry"), level)
          IN  pxVal(Member(geo, "offsetX")) \o <<" ">>
              \o pxVal(Member(geo, "offsetY")) \o <<" ">>
              \o pxVal(Member(geo, "blurRadius")) \o <<" ">>
              \o pxVal(Member(geo, "spreadRadius"))
        Line(level, bucket) ==
          cssVar(<<"shadow", "-">> \o level,
                 Template(level) \o <<" ">>
                 \o JSString(EntryOf(Section(data, bucket),
                                    <<"shadow", "-">> \o level)))
    IN  [root  |-> MapSeq(Section(data, "blur"), LAMBDA e : PxLine(<<>>, e)),
         light |-> MapSeq(levels, LAMBDA level : Line(level, "light")),
         dark  |-> MapSeq(levels, LAMBDA level : Line(level, "dark")),
         oklchColors |-> <<>>]

generateBorders(data) ==
    RootOnly(MapSeq(Section(data, "width"),
                    LAMBDA e : PxLine(<<"border", "-", "width", "-">>, e))
             \o MapSeq(Section(data, "style"),
                       LAMBDA e : EntryLine(<<"border", "-", "style", "-">>, e)))

generateOpacity(data) ==
    RootOnly(MapSeq(Section(data, "opacity"),
                    LAMBDA e : EntryLine(<<"opacity", "-">>, e)))

generateZIndex(data) ==
    RootOnly(MapSeq(Section(data, "z"), LAMBDA e : EntryLine(<<"z", "-">>, e)))

generateTransitions(data) ==
    RootOnly(MapSeq(Section(data, "duration"),
                    LAMBDA e : cssVar(<<"duration", "-">> \o e.key,
                                      JSString(e.val) \o <<"ms">>))
             \o MapSeq(Section(data, "easing"),
                       LAMBDA e : EntryLine(<<"easing", "-">>, e)))

\* ------------------------------------------------- the flat generator lists

\* A top-level file: absent, unparseable, or parsed; a *.tokens.json file
\* parses to its flattened tokens, a legacy *.json file to its data.
DocAbsent == [state |-> "absent", tokens |-> <<>>, data |-> <<>>]

DocBroken == [state |-> "broken", tokens |-> <<>>, data |-> <<>>]

DocTokens(tokens) == [state |-> "ok", tokens |-> tokens, data |-> <<>>]

DocData(data) == [state |-> "ok", tokens |-> <<>>, data |-> data]

\* Load taking an unparseable file for an empty one.
Load_lenient(doc) ==
    IF doc.state = "absent" THEN "ENOENT" ELSE "none"

\* loadDTCG / loadJSON: readFileSync, then JSON.parse.
Load(doc) ==
    IF doc.state = "absent" THEN "ENOENT"
    ELSE IF doc.state = "broken" THEN "SyntaxError"
    ELSE "none"

\* fn() of the dtcg generator called name, over the files of tokens/.
RunDTCG(name, docs, oklchOn) ==
    LET doc == docs[name]
    IN  IF Load(doc) # "none" THEN Threw(Load(doc))
        ELSE CASE name = <<"colors">> ->
                    Ran(generateDTCGColors(doc.tokens, oklchOn), <<>>)
               [] name = <<"sizing">> -> Ran(generateDTCGSizing(doc.tokens), <<>>)
               [] name = <<"typography">> -> generateDTCGTypography(doc.tokens)
               [] name = <<"radii">> -> Ran(generateDTCGRadii(doc.tokens), <<>>)
               [] name = <<"shadows">> -> Ran(generateDTCGShadows(doc.tokens), <<>>)
               [] name = <<"borders">> -> Ran(generateDTCGBorders(doc.tokens), <<>>)
               [] name = <<"opacity">> -> Ran(generateDTCGOpacity(doc.tokens), <<>>)
               [] name = <<"z", "-", "index">> ->
                    Ran(generateDTCGZIndex(doc.tokens), <<>>)
               [] name = <<"transitions">> ->
                    Ran(generateDTCGTransitions(doc.tokens), <<>>)

\* The reads of a property of undefined: data.primitive.family without
\* data.primitive, data.primitive.weight[...] without the weights, and in
\* generateShadows geo.offsetX without the level's geometry and
\* data.dark[...], data.light[...] without the section.
ReadsUndefined(name, data) ==
    \/ /\ name = <<"typography">>
       /\ \/ "primitive" \notin DOMAIN data
          \/ /\ Section(data, "composite") # <<>>
             /\ "weight" \notin DOMAIN data.primitive
    \/ /\ name = <<"shadows">>
       /\ \/ \E i \in 1..Len(levels) :
               \A m \in 1..Len(Section(data, "geometry")) :
                 Section(data, "geometry")[m].key # levels[i]
          \/ "dark" \notin DOMAIN data
          \/ "light" \notin DOMAIN data

\* fn() of the legacy generator called name.
RunLegacy(name, docs, oklchOn) ==
    LET doc == docs[name]
    IN  IF Load(doc) # "none" THEN Threw(Load(doc))
        ELSE IF ReadsUndefined(name, doc.data) THEN Threw("TypeError")
        ELSE Ran(CASE name = <<"colors">> -> generateColors(doc.data, oklchOn)
                   [] name = <<"sizing">> -> generateSizing(doc.data)
                   [] name = <<"typography">> -> generateTypography(doc.data)
                   [] name = <<"radii">> -> generateRadii(doc.data)
                   [] name = <<"shadows">> -> generateShadows(doc.data)
                   [] name = <<"borders">> -> generateBorders(doc.data)
                   [] name = <<"opacity">> -> generateOpacity(doc.data)
                   [] name = <<"z", "-", "index">> -> generateZIndex(doc.data)
                   [] name = <<"transitions">> -> generateTransitions(doc.data),
                 <<>>)

\* The generator list generate() builds for the dtcg and legacy formats: the
\* nine names, each function loading its own file when it is called.
FlatGeneratorList ==
    MapSeq(StandardNames,
           LAMBDA n : [name |-> n, catchAll |-> FALSE, tokens |-> <<>>])

\* result = fn() in the loop of assemble, for the format of the run.
Call(fmt, g, f, oklchOn) ==
    IF fmt = "three-tier" THEN Ran(RunGenerator(g, oklchOn), <<>>)
    ELSE IF fmt = "dtcg" THEN RunDTCG(g.name, f.top.tokens, oklchOn)
    ELSE RunLegacy(g.name, f.top.json, oklchOn)

\* ------------------------------------------------------ modern CSS features

\* Number of leading whitespace chunks of t from position i on.
RECURSIVE WsRun(_, _)
WsRun(t, i) ==
    IF i <= Len(t) /\ t[i] \in Whitespace THEN 1 + WsRun(t, i + 1) ELSE 0

NoMatch == [ok |-> FALSE, name |-> <<>>, value |-> <<>>]

\* line.match(/^\s*--([^:]+):\s*(.+);$/): leading whitespace, "--", a name of
\* at least one character up to the first ":", whitespace, and a value of at
\* least one character (none a line break) up to the ";" that ends the line.
parseCssVarLine(line) ==
    LET a == WsRun(line, 1) + 1
    IN  IF ~(a + 1 <= Len(line) /\ line[a] = "-" /\ line[a + 1] = "-") THEN NoMatch
        ELSE IF ~(\E c \in (a + 2)..Len(line) : line[c] = ":") THEN NoMatch
        ELSE
          LET c  == CHOOSE c \in (a + 2)..Len(line) :
                      line[c] = ":" /\ \A m \in (a + 2)..(c - 1) : line[m] # ":"
              ws == WsRun(line, c + 1)
              \* the value starts after the whitespace, or on its last chunk
              \* when nothing else is left before the closing ";"
              v  == IF c + ws + 1 <= Len(line) - 1 THEN c + ws + 1 ELSE c + ws
          IN  IF /\ c > a + 2
                 /\ line[Len(line)] = ";"
                 /\ v > c
                 /\ v <= Len(line) - 1
                 /\ \A m \in v..(Len(line) - 1) : line[m] # "\n"
              THEN [ok |-> TRUE, name |-> SubSeq(line, a + 2, c - 1),
                    value |-> SubSeq(line, v, Len(line) - 1)]
              ELSE NoMatch

\* Chunks that are a run of decimal digits.
DigitWords == {ToString(n) : n \in 0..99}

isAccentOrActionColor(propName) ==
    IF ~StartsWith(propName, <<"color", "-">>) THEN FALSE
    ELSE LET rest == SubSeq(propName, 3, Len(propName))
         IN  IF StartsWith(rest, <<"shadow", "-">>) THEN FALSE
             ELSE IF Includes(rest, "overlay") THEN FALSE
             ELSE IF /\ Len(rest) >= 2
                     /\ rest[Len(rest)] \in DigitWords
                     /\ rest[Len(rest) - 1] = "-" THEN FALSE
             ELSE IF StartsWith(rest, <<"accent", "-">>) THEN TRUE
             ELSE IF /\ StartsWith(rest, <<"modeless", "-">>)
                     /\ ~Includes(rest, "white")
                     /\ ~Includes(rest, "black") THEN TRUE
             ELSE FALSE

\* The lines of vars that declare an accent or action color, by name.
AccentNames(lines) ==
    LET Hit(line) ==
          LET m == parseCssVarLine(line)
          IN  m.ok /\ StartsWith(m.name, <<"color", "-">>)
                   /\ isAccentOrActionColor(m.name)
    IN  MapSeq(SelectSeq(lines, Hit), LAMBDA line : parseCssVarLine(line).name)

hoverLine(propName) ==
    <<" ", " ", "-", "-">> \o propName \o <<"-", "hover", ":", " ">>
    \o <<"color-mix(in oklch, var(", "-", "-">> \o propName \o <<") 90%, white)", ";">>

activeLine(propName) ==
    <<" ", " ", "-", "-">> \o propName \o <<"-", "active", ":", " ">>
    \o <<"color-mix(in oklch, var(", "-", "-">> \o propName \o <<") 80%, black)", ";">>

\* processVars of generateColorMixVars: the lines pushed for one bucket.
colorMixOf(lines) ==
    Flatten(MapSeq(AccentNames(lines),
                   LAMBDA n : <<hoverLine(n), activeLine(n)>>))

\* generateColorMixVars deriving every bucket's states from all the buckets.
generateColorMixVars_allBuckets(rootVars, darkVars, lightVars) ==
    [root  |-> colorMixOf(rootVars \o darkVars \o lightVars),
     dark  |-> colorMixOf(rootVars \o darkVars \o lightVars),
     light |-> colorMixOf(rootVars \o darkVars \o lightVars)]

generateColorMixVars(rootVars, darkVars, lightVars) ==
    [root  |-> colorMixOf(rootVars),
     dark  |-> colorMixOf(darkVars),
     light |-> colorMixOf(lightVars)]

lighterLine(propName) ==
    <<" ", " ", "-", "-">> \o propName \o <<"-", "lighter", ":", " ">>
    \o <<"oklch(from var(", "-", "-">> \o propName \o <<") calc(l * 1.2) c h)", ";">>

darkerLine(propName) ==
    <<" ", " ", "-", "-">> \o propName \o <<"-", "darker", ":", " ">>
    \o <<"oklch(from var(", "-", "-">> \o propName \o <<") calc(l * 0.8) c h)", ";">>

relativeOf(lines) ==
    Flatten(MapSeq(AccentNames(lines),
                   LAMBDA n : <<lighterLine(n), darkerLine(n)>>))

\* generateRelativeColorVars deriving every bucket's shades from all buckets.
generateRelativeColorVars_allBuckets(rootVars, darkVars, lightVars) ==
    [root  |-> relativeOf(rootVars \o darkVars \o lightVars),
     dark  |-> relativeOf(rootVars \o darkVars \o lightVars),
     light |-> relativeOf(rootVars \o darkVars \o lightVars)]

generateRelativeColorVars(rootVars, darkVars, lightVars) ==
    [root  |-> relativeOf(rootVars),
     dark  |-> relativeOf(darkVars),
     light |-> relativeOf(lightVars)]

\* The declarations among lines, as { name, value } in order.
Parsed(lines) ==
    MapSeq(SelectSeq(lines, LAMBDA line : parseCssVarLine(line).ok),
           LAMBDA line : parseCssVarLine(line))

ParsedName(m) == m.name

\* generateLightDarkVars with the dark value as the first argument.
generateLightDarkVars_darkFirst(darkVars, lightVars) ==
    LET darkDecls  == Parsed(darkVars)
        lightDecls == Parsed(lightVars)
        props == SelectSeq(KeysOf(darkDecls, ParsedName),
                           LAMBDA prop : /\ HasKey(lightDecls, ParsedName, prop)
                                         /\ StartsWith(prop, <<"color", "-">>))
    IN  MapSeq(props,
               LAMBDA prop :
                 <<" ", " ", "-", "-">> \o prop \o <<":", " ", "light-dark(">>
                 \o LastWith(darkDecls, ParsedName, prop).value \o <<",", " ">>
                 \o LastWith(lightDecls, ParsedName, prop).value \o <<")", ";">>)

generateLightDarkVars(darkVars, lightVars) ==
    LET darkDecls  == Parsed(darkVars)
        lightDecls == Parsed(lightVars)
        props == SelectSeq(KeysOf(darkDecls, ParsedName),
                           LAMBDA prop : /\ HasKey(lightDecls, ParsedName, prop)
                                         /\ StartsWith(prop, <<"color", "-">>))
    IN  MapSeq(props,
               LAMBDA prop :
                 <<" ", " ", "-", "-">> \o prop \o <<":", " ", "light-dark(">>
                 \o LastWith(lightDecls, ParsedName, prop).value \o <<",", " ">>
                 \o LastWith(darkDecls, ParsedName, prop).value \o <<")", ";">>)

\* The first declaration of a name among parsed declarations.
FirstWith(decls, name) ==
    decls[CHOOSE i \in 1..Len(decls) :
            /\ decls[i].name = name
            /\ \A m \in 1..(i - 1) : decls[m].name # name]

\* inferSyntax: the syntax descriptor of a property name, "" for none.
inferSyntax(name) ==
    IF StartsWith(name, <<"color", "-">>) THEN "<color>"
    ELSE IF StartsWith(name, <<"shadow", "-">>) THEN ""
    ELSE IF \/ StartsWith(name, <<"size", "-">>)
            \/ StartsWith(name, <<"space", "-">>)
            \/ StartsWith(name, <<"border", "-", "width", "-">>)
            \/ StartsWith(name, <<"blur", "-">>) THEN "<length>"
    ELSE IF StartsWith(name, <<"radius", "-">>) THEN "<length>"
    ELSE IF \/ StartsWith(name, <<"font", "-", "size", "-">>)
            \/ StartsWith(name, <<"line", "-", "height", "-">>) THEN "<length>"
    ELSE IF StartsWith(name, <<"opacity", "-">>) THEN "<number>"
    ELSE IF StartsWith(name, <<"z", "-">>) THEN "<integer>"
    ELSE IF StartsWith(name, <<"font", "-", "weight", "-">>) THEN "<number>"
    ELSE IF StartsWith(name, <<"duration", "-">>) THEN "<time>"
    ELSE ""

\* generatePropertyDeclarations taking the value of a name's last occurrence.
generatePropertyDeclarations_lastWins(rootVars, darkVars) ==
    LET decls == Parsed(rootVars \o darkVars)
        typed == SelectSeq(decls, LAMBDA m : inferSyntax(m.name) # "")
    IN  MapSeq(KeysOf(typed, ParsedName),
               LAMBDA name :
                 <<"@property ", "-", "-">> \o name
                 \o <<" {\n", "  syntax: '", inferSyntax(name), "';\n",
                      "  inherits: true;\n", "  initial-value: ">>
                 \o LastWith(typed, ParsedName, name).value \o <<";", "\n", "}">>)

generatePropertyDeclarations(rootVars, darkVars) ==
    LET decls == Parsed(rootVars \o darkVars)
        typed == SelectSeq(decls, LAMBDA m : inferSyntax(m.name) # "")
    IN  MapSeq(KeysOf(typed, ParsedName),
               LAMBDA name :
                 <<"@property ", "-", "-">> \o name
                 \o <<" {\n", "  syntax: '", inferSyntax(name), "';\n",
                      "  inherits: true;\n", "  initial-value: ">>
                 \o FirstWith(typed, name).value \o <<";", "\n", "}">>)

\* --------------------------------------------------------------- assembly

\* The name comment that precedes a generator's lines in a bucket.
commentLine(name) == <<"\n", " ", " ", "/*", " ">> \o name \o <<" ", "*/">>

\* What the loop of assemble adds to one bucket for one generator.
pushed(name, lines) ==
    IF lines = <<>> THEN <<>> ELSE <<commentLine(name)>> \o lines

\* vars.join('\n').split('\n').map(l => l ? '  ' + l : l).join('\n')
RECURSIVE indentFrom(_, _)
indentFrom(t, i) ==
    IF i > Len(t) THEN <<>>
    ELSE LET lineStart == i = 1 \/ t[i - 1] = "\n"
         IN  (IF lineStart /\ t[i] # "\n" THEN <<" ", " ">> ELSE <<>>)
             \o <<t[i]>> \o indentFrom(t, i + 1)

\* The lines are indented one by one: the joined text breaks where the joined
\* lines meet, so a line start of the text is a line start of one of them.
nestIndent(lines) ==
    Join(MapSeq(lines, LAMBDA l : indentFrom(l, 1)), <<"\n">>)

prefixed(lines) == MapSeq(lines, LAMBDA l : <<" ", " ">> \o l)

\* oklchPair with the source value first.
oklchPair_hexFirst(c, indent) ==
    << <<indent, "-", "-">> \o c.propName \o <<"-", "hex", ":", " ">> \o c.hex
         \o <<";">>,
       <<indent, "-", "-">> \o c.propName \o <<":", " ">> \o c.oklch \o <<";">> >>

\* The two lines the color-space block holds for one converted color.
oklchPair(c, indent) ==
    << <<indent, "-", "-">> \o c.propName \o <<":", " ">> \o c.oklch \o <<";">>,
       <<indent, "-", "-">> \o c.propName \o <<"-", "hex", ":", " ">> \o c.hex
         \o <<";">> >>

oklchBlock(allOklchColors) ==
    LET In(b) == SelectSeq(allOklchColors, LAMBDA c : c.bucket = b)
        Pairs(cs, indent) == Flatten(MapSeq(cs, LAMBDA c : oklchPair(c, indent)))
        Plain(sel, b) ==
            IF In(b) = <<>> THEN <<>>
            ELSE << <<sel>> >> \o Pairs(In(b), "    ") \o << <<"  }", "\n">> >>
        Media(scheme, b, last) ==
            IF In(b) = <<>> THEN <<>>
            ELSE << <<"  @media (prefers-color-scheme: ", scheme, ") {">>,
                    <<"    :root:not(.dark):not(.light) {">> >>
                 \o Pairs(In(b), "      ")
                 \o << <<"    }">>, IF last THEN <<"  }">> ELSE <<"  }", "\n">> >>
    IN  Join(<< <<"@supports (color: oklch(0% 0 0)) {">> >>
             \o Plain("  :root {", "root")
             \o Plain("  .dark {", "dark")
             \o Plain("  .light {", "light")
             \o Media("dark", "dark", FALSE)
             \o Media("light", "light", TRUE)
             \o << <<"}">> >>,
             <<"\n">>)

\* The @supports block of a generator that returns { root, dark, light }.
bucketBlock(opening, r) ==
    Join(<< <<opening>> >>
         \o (IF r.root = <<>> THEN <<>>
             ELSE << <<"  :root {">> >> \o prefixed(r.root) \o << <<"  }", "\n">> >>)
         \o (IF r.dark = <<>> THEN <<>>
             ELSE << <<"  .dark {">> >> \o prefixed(r.dark) \o << <<"  }", "\n">> >>)
         \o (IF r.light = <<>> THEN <<>>
             ELSE << <<"  .light {">> >> \o prefixed(r.light) \o << <<"  }">> >>)
         \o << <<"}">> >>,
         <<"\n">>)

hasLines(r) == r.root # <<>> \/ r.dark # <<>> \/ r.light # <<>>

\* The sections of the modern CSS part of assemble.
modernSections(rootVars, darkVars, lightVars, oklchOn) ==
    LET propertyDecls  == generatePropertyDeclarations(rootVars, darkVars)
        colorMix       == generateColorMixVars(rootVars, darkVars, lightVars)
        lightDarkLines == generateLightDarkVars(darkVars, lightVars)
        relColor       == generateRelativeColorVars(rootVars, darkVars, lightVars)
    IN  << <<>>,
           <<"/* Modern CSS - progressive enhancement */">>,
           <<"/* Browser support: Chrome 111+, Safari 16.4+, Firefox 113+ */">> >>
        \o (IF propertyDecls = <<>> THEN <<>>
            ELSE << <<>>, <<"/* @property - typed custom properties (enables transitions, validation) */">>,
                    Join(propertyDecls, <<"\n", "\n">>) >>)
        \o (IF ~hasLines(colorMix) THEN <<>>
            ELSE << <<>>, <<"/* color-mix() - runtime hover/active derived states */">>,
                    bucketBlock("@supports (color: color-mix(in oklch, red, blue)) {",
                                colorMix) >>)
        \o (IF lightDarkLines = <<>> THEN <<>>
            ELSE << <<>>, <<"/* light-dark() - single-property theme values (requires color-scheme on :root) */">>,
                    Join(<< <<"@supports (color: light-dark(red, blue)) {">>,
                            <<"  :root {">>,
                            <<"    color-scheme: light dark;">> >>
                         \o prefixed(lightDarkLines)
                         \o << <<"  }">>, <<"}">> >>,
                         <<"\n">>) >>)
        \o (IF ~oklchOn \/ ~hasLines(relColor) THEN <<>>
            ELSE << <<>>, <<"/* Relative color syntax - OKLCH shade generation */">>,
                    bucketBlock("@supports (color: oklch(from red l c h)) {",
                                relColor) >>)

\* baseSections with the light block ahead of the dark block.
baseSections_lightFirst(rootVars, darkVars, lightVars) ==
    << <<":root {">> \o Join(rootVars, <<"\n">>) \o <<"\n", "}", "\n">>,
       <<".light {">> \o Join(lightVars, <<"\n">>) \o <<"\n", "}", "\n">>,
       <<".dark {">> \o Join(darkVars, <<"\n">>) \o <<"\n", "}", "\n">>,
       <<"/* OS preference fallback (when no .dark/.light class is set) */">>,
       <<"@media (prefers-color-scheme: dark) {", "\n",
         "  :root:not(.dark):not(.light) {">>
         \o nestIndent(darkVars) \o <<"\n", "  }", "\n", "}", "\n">>,
       <<"@media (prefers-color-scheme: light) {", "\n",
         "  :root:not(.dark):not(.light) {">>
         \o nestIndent(lightVars) \o <<"\n", "  }", "\n", "}">> >>

\* The root, dark and light blocks and the two OS-preference fallbacks.
baseSections(rootVars, darkVars, lightVars) ==
    << <<":root {">> \o Join(rootVars, <<"\n">>) \o <<"\n", "}", "\n">>,
       <<".dark {">> \o Join(darkVars, <<"\n">>) \o <<"\n", "}", "\n">>,
       <<".light {">> \o Join(lightVars, <<"\n">>) \o <<"\n", "}", "\n">>,
       <<"/* OS preference fallback (when no .dark/.light class is set) */">>,
       <<"@media (prefers-color-scheme: dark) {", "\n",
         "  :root:not(.dark):not(.light) {">>
         \o nestIndent(darkVars) \o <<"\n", "  }", "\n", "}", "\n">>,
       <<"@media (prefers-color-scheme: light) {", "\n",
         "  :root:not(.dark):not(.light) {">>
         \o nestIndent(lightVars) \o <<"\n", "  }", "\n", "}">> >>

\* The three header comments; the third holds the day of the run.
headerSections(date) ==
    << <<"/* tokens.css - Generated from v2/tokens/*.json */">>,
       <<"/* Do not edit manually. Run: node scripts/generate.js */">>,
       <<"/* Generated: ", date, " */", "\n">> >>

\* The text assemble returns once its loop has filled the three buckets.
sectionsText(rootVars, darkVars, lightVars, allOklchColors, oklchOn, modernOn, date) ==
    Join(headerSections(date)
         \o baseSections(rootVars, darkVars, lightVars)
         \o (IF oklchOn /\ allOklchColors # <<>>
             THEN << <<>>, <<"/* OKLCH color space - perceptually uniform, wider gamut */">>,
                     <<"/* Hex fallbacks above; OKLCH overrides below for supporting browsers */">>,
                     oklchBlock(allOklchColors) >>
             ELSE <<>>)
         \o (IF modernOn
             THEN modernSections(rootVars, darkVars, lightVars, oklchOn)
             ELSE <<>>),
         <<"\n">>)

\* ------------------------------------------------------------ the inputs

Seg1(w) == <<w>>

Tok(path, value, type, mode) ==
    [path |-> path, value |-> value, type |-> type, mode |-> mode]

\* The alias text {path}.
Alias(path) == Str(<<"{">> \o DotPath(path) \o <<"}">>)

TierOk(tokens) == [state |-> "ok", tokens |-> tokens]
TierBroken     == [state |-> "broken", tokens |-> <<>>]
TierAbsent     == [state |-> "absent", tokens |-> <<>>]


pTeal  == << <<"palette">>, <<"teal">> >>
pWhite == << <<"palette">>, <<"white">> >>
pUnit8 == << <<"unit">>, <<"8">> >>
pBase  == << <<"unit">>, <<"base">> >>
pLoopA == << <<"loop">>, <<"a">> >>
pLoopB == << <<"loop">>, <<"b">> >>

sAccentDark  == << <<"color">>, <<"accent">>, <<"primary">>, <<"dark">> >>
sAccentLight == << <<"color">>, <<"accent">>, <<"primary">>, <<"light">> >>
sBrand       == << <<"color">>, <<"modeless">>, <<"brand">> >>
sBaseDark    == << <<"color">>, <<"background">>, <<"base">>, <<"dark">> >>
sRadius20    == << <<"radius">>, <<"radius", "-", "20">> >>
sSize1       == << <<"size">>, <<"size", "-", "1">> >>
sSpace1      == << <<"space">>, <<"space", "-", "1">> >>
sShadowDark  == << <<"shadow">>, <<"small">>, <<"dark">> >>
sShadowLight == << <<"shadow">>, <<"small">>, <<"light">> >>
sZTop        == << <<"z">>, <<"z", "-", "top">> >>
cButtonDark  == << <<"button">>, <<"bg">>, <<"dark">> >>
cButtonLight == << <<"button">>, <<"bg">>, <<"light">> >>
cCardRadius  == << <<"card">>, <<"radius">> >>
cCardPad     == << <<"card">>, <<"pad">> >>
cCardGap     == << <<"card">>, <<"gap">> >>

ShadowOf(color) ==
    Obj(<<[key |-> "offsetX", val |-> Str(<<"0">>)],
          [key |-> "offsetY", val |-> Str(<<"2px">>)],
          [key |-> "blur", val |-> Str(<<"4px">>)],
          [key |-> "spread", val |-> Str(<<"0">>)],
          [key |-> "color", val |-> color]>>)

PrimitiveChoices ==
    { TierOk(<<Tok(pTeal, Teal, "color", "none"),
               Tok(pWhite, White, "color", "none"),
               Tok(pUnit8, Num(8), "dimension", "none")>>),
      TierOk(<<Tok(pTeal, Teal, "color", "none"),
               Tok(pUnit8, Num(8), "dimension", "none"),
               Tok(pBase, Alias(pUnit8), "dimension", "none")>>),
      TierOk(<<Tok(pTeal, Teal, "color", "none"),
               Tok(pLoopA, Alias(pLoopB), "dimension", "none"),
               Tok(pLoopB, Alias(pLoopA), "dimension", "none")>>),
      TierBroken }

SemanticPool ==
    << Tok(sAccentDark, Alias(pTeal), "color", "dark"),
       Tok(sAccentLight, Alias(pWhite), "color", "light"),
       Tok(sBrand, Alias(pTeal), "color", "none"),
       Tok(sBaseDark, Black, "color", "dark"),
       Tok(sRadius20, Alias(pUnit8), "dimension", "none"),
       Tok(sSize1, Alias(sRadius20), "dimension", "none"),
       Tok(sSpace1, Alias(pBase), "dimension", "none"),
       Tok(sShadowDark, ShadowOf(Alias(pTeal)), "shadow", "dark"),
       Tok(sShadowLight, ShadowOf(Black), "shadow", "light"),
       Tok(sZTop, Alias(pLoopA), "number", "none"),
       Tok(pUnit8, Str(<<"4px">>), "dimension", "none") >>

\* The sublists of pool of at most n elements, in pool order.
SubLists(pool, n) ==
    LET Pick(I) ==
          LET Nth(j) == CHOOSE i \in I : Cardinality({m \in I : m <= i}) = j
          IN  [j \in 1..Cardinality(I) |-> pool[Nth(j)]]
    IN  {Pick(I) : I \in {J \in SUBSET (1..Len(pool)) : Cardinality(J) <= n}}

ComponentChoices ==
    { TierAbsent,
      TierBroken,
      TierOk(<<Tok(cButtonDark, Alias(sAccentDark), "color", "dark"),
               Tok(cButtonLight, Alias(pWhite), "color", "light"),
               Tok(sBaseDark, Black, "color", "dark")>>),
      TierOk(<<Tok(cCardRadius, Alias(sRadius20), "dimension", "none"),
               Tok(cCardPad, Alias(cCardRadius), "dimension", "none"),
               Tok(cCardGap, Alias(pUnit8), "dimension", "none")>>),
      TierOk(<<Tok(sAccentDark, Black, "color", "dark"),
               Tok(cCardRadius, Alias(sSize1), "dimension", "none")>>) }

\* --- the top level of tokens/ (the dtcg and legacy runs)

TierEmpty == [state |-> "empty", tokens |-> <<>>]

Tomato == Str(<<"tomato">>)

tFamilySans == << <<"font">>, <<"family">>, <<"sans">> >>
tWeightBold == << <<"font">>, <<"weight">>, <<"bold">> >>
tSizeBody   == << <<"font">>, <<"size">>, <<"body">> >>
tLineBody   == << <<"line", "-", "height">>, <<"body">> >>
tLineCaption == << <<"line", "-", "height">>, <<"caption">> >>
tCompositeBody == << <<"font", "-", "weight", "-", "composite">>, <<"body">> >>
tBlurSmall  == << <<"blur">>, <<"blur", "-", "small">> >>
tBorderThin == << <<"border">>, <<"width">>, <<"thin">> >>
tBorderFocusDark == << <<"border">>, <<"width">>, <<"focus">>, <<"dark">> >>
tOpacity50  == << <<"opacity">>, <<"opacity", "-", "50">> >>
tDurationFast == << <<"duration">>, <<"duration", "-", "fast">> >>
tEasingStandard == << <<"easing">>, <<"easing", "-", "standard">> >>

\* One file per generator name, in the order of StandardNames.
DocsOf(list) ==
    [n \in {StandardNames[i] : i \in 1..Len(StandardNames)} |->
       list[CHOOSE i \in 1..Len(StandardNames) : StandardNames[i] = n]]

NoDocs == DocsOf([i \in 1..Len(StandardNames) |-> DocAbsent])

TypographyTokens(weight) ==
    <<Tok(tFamilySans, Str(<<"Inter">>), "fontFamily", "none"),
      Tok(tWeightBold, Num(600), "number", "none"),
      Tok(tSizeBody, Num(16), "dimension", "none"),
      Tok(tLineCaption, Num(18), "dimension", "none"),
      Tok(tLineBody, Num(24), "dimension", "none"),
      Tok(tCompositeBody, weight, "number", "none")>>

\* sizing.tokens.json with the size group first, and with the space group
\* first.
SizingTokens ==
    DocTokens(<<Tok(sSize1, Num(4), "dimension", "none"),
                Tok(sSpace1, Num(0), "dimension", "none")>>)

SizingSpaceFirst ==
    DocTokens(<<Tok(sSpace1, Num(0), "dimension", "none"),
                Tok(sSize1, Num(4), "dimension", "none")>>)

\* sizing.tokens.json with a size and a space that share their last segment.
SizingSharedSegment ==
    DocTokens(<<Tok(<< <<"size">>, <<"small">> >>, Num(4), "dimension", "none"),
                Tok(<< <<"space">>, <<"small">> >>, Num(8), "dimension", "none")>>)

\* radii.tokens.json with a radius one group further down.
RadiiNested ==
    DocTokens(<<Tok(sRadius20, Num(8), "dimension", "none"),
                Tok(<< <<"radius">>, <<"card">>, <<"radius", "-", "card">> >>,
                    Str(<<"2px">>), "dimension", "none")>>)

\* The *.tokens.json files of a flat source, sizing, typography and radii as
\* given.
TokenDocsWith(sizing, typography, radii) ==
    DocsOf(<<DocTokens(<<Tok(sAccentDark, Teal, "color", "dark"),
                         Tok(sAccentLight, White, "color", "light"),
                         Tok(sBrand, Tomato, "color", "none")>>),
             sizing,
             typography,
             radii,
             DocTokens(<<Tok(sShadowDark, ShadowOf(Black), "shadow", "dark"),
                         Tok(tBlurSmall, Str(<<"4px">>), "dimension", "none"),
                         Tok(sShadowLight, ShadowOf(Teal), "shadow", "light")>>),
             DocTokens(<<Tok(tBorderThin, Num(1), "dimension", "none"),
                         Tok(tBorderFocusDark, Num(2), "dimension", "dark")>>),
             DocTokens(<<Tok(tOpacity50, Str(<<"0.5">>), "number", "none")>>),
             DocTokens(<<Tok(sZTop, Num(10), "number", "none")>>),
             DocTokens(<<Tok(tDurationFast, Num(150), "duration", "none"),
                         Tok(tEasingStandard, Arr(<<Num(0), Num(1)>>),
                             "cubicBezier", "none")>>)>>)

TokenDocs(typography, radii) == TokenDocsWith(SizingTokens, typography, radii)

Entry(key, val) == [key |-> key, val |-> val]

Geometry(blurRadius) ==
    Obj(<<Entry("offsetX", Num(0)), Entry("offsetY", Num(2)),
          Entry("blurRadius", Num(blurRadius)), Entry("spreadRadius", Num(0))>>)

TypographyData ==
    DocData([primitive |-> [family |-> <<Entry(<<"sans">>, Str(<<"Inter">>))>>,
                            weight |-> <<Entry(<<"bold">>, Num(600))>>],
             composite |->
               <<Entry(<<"body">>,
                       Obj(<<Entry("fontSize", Num(16)),
                             Entry("lineHeight", Num(24)),
                             Entry("fontWeight", Str(<<"bold">>))>>)),
                 Entry(<<"caption">>,
                       Obj(<<Entry("fontSize", Num(12)),
                             Entry("lineHeight", Num(18)),
                             Entry("fontWeight", Str(<<"bold">>))>>))>>])

\* The legacy *.json files of a source, typography.json and radii.json as
\* given.
JsonDocs(typography, radii) ==
    DocsOf(<<DocData([dark   |-> <<Entry(<<"accent", "-", "primary">>, Teal)>>,
                      light  |-> <<Entry(<<"accent", "-", "primary">>, White)>>,
                      shared |-> <<Entry(<<"modeless", "-", "brand">>, Tomato)>>]),
             DocData([size  |-> <<Entry(<<"size", "-", "1">>, Num(4))>>,
                      space |-> <<Entry(<<"space", "-", "0">>, Num(0))>>]),
             typography,
             radii,
             DocData([geometry |-> <<Entry(<<"small">>, Geometry(4)),
                                     Entry(<<"medium">>, Geometry(8)),
                                     Entry(<<"large">>, Geometry(16))>>,
                      dark  |-> <<Entry(<<"shadow", "-", "small">>, Black),
                                  Entry(<<"shadow", "-", "medium">>, Black),
                                  Entry(<<"shadow", "-", "large">>, Black)>>,
                      light |-> <<Entry(<<"shadow", "-", "small">>, Teal),
                                  Entry(<<"shadow", "-", "medium">>, Teal),
                                  Entry(<<"shadow", "-", "large">>, Teal)>>,
                      blur  |-> <<Entry(<<"blur", "-", "small">>, Num(4))>>]),
             DocData([width |-> <<Entry(<<"thin">>, Num(1))>>,
                      style |-> <<Entry(<<"solid">>, Str(<<"solid">>))>>]),
             DocData([opacity |-> <<Entry(<<"50">>, Str(<<"0.5">>))>>]),
             DocData([z |-> <<Entry(<<"top">>, Num(10))>>]),
             DocData([duration |-> <<Entry(<<"fast">>, Num(150))>>,
                      easing   |-> <<Entry(<<"standard">>, Str(<<"ease">>))>>])>>)

RadiiTokens ==
    DocTokens(<<Tok(sRadius20, Num(8), "dimension", "none"),
                Tok(<< <<"radius">>, <<"radius", "-", "0">> >>, Num(0),
                    "dimension", "none")>>)

RadiiData ==
    DocData([radius |-> <<Entry(<<"radius", "-", "20">>, Num(8)),
                          Entry(<<"radius", "-", "0">>, Num(0))>>])

\* tokens/ itself: whether the directory exists, its *.tokens.json files of
\* the nine generator names, whether it holds another *.tokens.json file,
\* and its legacy *.json files.
Top(tokens, extra, json) ==
    [dir |-> TRUE, tokens |-> tokens, extra |-> extra, json |-> json]

NoTop == Top(NoDocs, FALSE, NoDocs)

TopMissing == [dir |-> FALSE, tokens |-> NoDocs, extra |-> FALSE, json |-> NoDocs]

TopChoices ==
    { NoTop,
      TopMissing,
      Top(NoDocs, TRUE, JsonDocs(TypographyData, RadiiData)),
      Top(NoDocs, FALSE, JsonDocs(TypographyData, RadiiData)),
      Top(NoDocs, FALSE, JsonDocs(TypographyData, DocBroken)),
      Top(NoDocs, FALSE, JsonDocs(TypographyData, DocAbsent)),
      Top(NoDocs, FALSE, JsonDocs(DocData([composite |-> <<>>]), RadiiData)),
      Top(TokenDocs(DocTokens(TypographyTokens(Alias(tWeightBold))), RadiiTokens),
          FALSE, NoDocs),
      Top(TokenDocs(DocTokens(TypographyTokens(Alias(tSizeBody))), RadiiTokens),
          FALSE, JsonDocs(TypographyData, RadiiData)),
      Top(TokenDocs(DocTokens(TypographyTokens(Alias(tCompositeBody))), RadiiTokens),
          FALSE, NoDocs),
      Top(TokenDocs(DocTokens(TypographyTokens(Alias(pTeal))), DocBroken),
          FALSE, NoDocs),
      Top(TokenDocs(DocBroken, RadiiTokens), FALSE, JsonDocs(TypographyData, RadiiData)),
      Top(TokenDocs(DocTokens(<<>>), DocAbsent), FALSE, NoDocs),
      Top(TokenDocs(DocTokens(TypographyTokens(Num(600))), RadiiTokens),
          FALSE, NoDocs),
      Top(TokenDocsWith(SizingSpaceFirst, DocTokens(TypographyTokens(Num(600))),
                        RadiiTokens),
          FALSE, NoDocs),
      Top(TokenDocs(DocTokens(TypographyTokens(Num(600))), RadiiNested),
          FALSE, NoDocs),
      Top(TokenDocsWith(SizingSharedSegment, DocTokens(TypographyTokens(Num(600))),
                        RadiiTokens),
          FALSE, NoDocs) }

\* The sources whose primitives tier decides nothing or everything: no
\* primitives directory, one without a definition file, one with a parsable
\* file and one with an unparseable file, over each top level.
FlatSources ==
    [primitives : {TierAbsent, TierEmpty, TierBroken,
                   TierOk(<<Tok(pTeal, Teal, "color", "none")>>)},
     semantic   : {TierAbsent,
                   TierOk(<<Tok(sRadius20, Num(8), "dimension", "none"),
                            Tok(tBorderFocusDark, Num(2), "dimension", "dark")>>
                          \o TypographyTokens(Num(600)))},
     component  : {TierAbsent},
     top        : TopChoices]

\* --- token values written piece by piece (the resolver runs)

\* A piece of a string value: a word, an alias {x}, or a lone brace.
Word(x)   == [t |-> "word", x |-> x]
RefTo(x)  == [t |-> "ref", x |-> x]
OpenBrace  == [t |-> "open", x |-> "{"]
CloseBrace == [t |-> "close", x |-> "}"]

SrcText(p) == [k |-> "text", p |-> p]
SrcNum(n)  == [k |-> "num", n |-> n]
SrcObj(e)  == [k |-> "obj", e |-> e]
SrcArr(a)  == [k |-> "arr", a |-> a]

renderPiece(p) ==
    IF p.t = "ref" THEN <<"{", p.x, "}">> ELSE <<p.x>>

\* The JSON value a written value parses to.
RECURSIVE valueOf(_)
valueOf(src) ==
    CASE src.k = "text" -> Str(Flatten(MapSeq(src.p, renderPiece)))
      [] src.k = "num"  -> Num(src.n)
      [] src.k = "obj"  -> Obj(MapSeq(src.e, LAMBDA f :
                                 [key |-> f.key, val |-> valueOf(f.val)]))
      [] src.k = "arr"  -> Arr(MapSeq(src.a, valueOf))

Pieces == {Word("x"), RefTo("a"), RefTo("zz"), OpenBrace, CloseBrace}

PieceLists == UNION {[1..n -> Pieces] : n \in 0..MaxPieces}

LiteralObj == SrcObj(<<[key |-> "blur", val |-> SrcText(<<Word("4px")>>)],
                       [key |-> "spread", val |-> SrcNum(0)]>>)
LiteralArr == SrcArr(<<SrcNum(0), SrcNum(1)>>)

\* The values a resolver run resolves.
ValueSources ==
    {SrcText(p) : p \in PieceLists}
    \cup {SrcNum(3),
          SrcObj(<<[key |-> "color", val |-> SrcText(<<RefTo("a")>>)],
                   [key |-> "blur", val |-> SrcText(<<Word("x"), RefTo("zz")>>)]>>),
          SrcArr(<<SrcText(<<RefTo("a")>>)>>)}

\* The primitives a resolver run looks references up in: a and b.
LookupSources ==
    [a : {SrcNum(8), SrcText(<<Word("x")>>), SrcText(<<RefTo("b")>>),
          SrcText(<<RefTo("zz")>>), SrcText(<<Word("x"), RefTo("b")>>),
          SrcText(<<CloseBrace>>), SrcText(<<RefTo("a")>>)},
     b : {SrcNum(5), SrcText(<<RefTo("a")>>), LiteralObj, LiteralArr,
          SrcArr(<<SrcNum(1), SrcText(<<RefTo("a")>>)>>)}]

NoSource == [value |-> SrcNum(0), lookup |-> [a |-> SrcNum(0), b |-> SrcNum(0)]]

pResolved == << <<"space">>, <<"space", "-", "1">> >>

\* The days a run can take place on, as
\* new Date().toISOString().split('T')[0] prints them.
Dates == {"2026-11-01", "2026-11-02"}

\* --- the values the converter is called with (the converter runs)

\* The two hex digits of a byte.
HexByte(n) == <<HexLower[(n \div 16) + 1], HexLower[(n % 16) + 1]>>

\* #rrggbbaa with every alpha byte and #rgba with every alpha digit.
AlphaColors ==
    {<<"#">> \o rgb \o HexByte(a) :
        rgb \in {<<"3", "3", "6", "6", "9", "9">>, <<"0", "0", "0", "0", "0", "0">>},
        a \in 0..255}
    \cup {<<"#", "3", "6", "9", HexLower[d]>> : d \in 1..16}

\* #rgb and #rrggbb, in either case.
OpaqueColors ==
    {White.s, Black.s, Teal.s,
     <<"#", "f", "f", "f">>,
     <<"#", "F", "F", "F", "F", "F", "F">>,
     <<"#", "8", "0", "8", "0", "8", "0">>,
     <<"#", "0", "1", "0", "1", "0", "1">>,
     <<"#", "f", "0", "0">>,
     <<"#", "0", "0", "F">>,
     <<"#", "f", "0", "8">>,
     <<"#", "2", "f", "0", "0", "1", "4">>,
     <<" ", "#", "3", "6", "9", "\n">>}

\* Values already in oklch() syntax.
OklchValues ==
    {<<"oklch(", "62", ".", "8", "%", " ", "0", ".", "2576", " ", "29", ".", "2", ")">>,
     <<" ", "oklch(", "100", "%", " ", "0", " ", "none", ")", " ">>,
     <<"oklch", " ", "(", "50", "%", " ", "0", " ", "none", ")">>}

\* Everything else: no #, a length parseHex does not take, characters that
\* are no hex digits.
OtherValues ==
    {<<>>,
     <<"tomato">>,
     <<"rgb(", "0", ",", " ", "0", ",", " ", "0", ")">>,
     <<"3", "6", "9">>,
     <<"f", "f", "0", "0", "8", "8">>,
     <<"#">>,
     <<"#", "f">>,
     <<"#", "f", "f">>,
     <<"#", "1", "2", "3", "4", "5">>,
     <<"#", "1", "2", "3", "4", "5", "6", "7">>,
     <<"#", "1", "2", "3", "4", "5", "6", "7", "8", "9">>,
     <<"#", "g", "0", "0">>,
     <<"#", "0", "0", "0", "z">>,
     <<"#", "3", " ", "9">>,
     <<"#", "x", "y", "z", "x", "y", "z">>,
     <<"#", "1", "g", "2", "2", "3", "3">>,
     <<"#", "3", "3", "6", "6", "9", "9", "8", "h">>,
     <<"#", "3", "3", " ", "6", "9", "9">>,
     <<"#", "+", "f", "6", "6", "9", "9">>,
     <<"#", "-", "f", "6", "6", "9", "9">>,
     <<"#", "0", "x", "6", "6", "9", "9">>}

ConverterValues == AlphaColors \cup OpaqueColors \cup OklchValues \cup OtherValues

\* --- the token directories the rules script is run on (the rules runs)

\* tokens/ with each of the nine *.json files absent, unparseable or parsed.
RulesSources ==
    {[primitives |-> TierAbsent, semantic |-> TierAbsent, component |-> TierAbsent,
      top |-> [dir |-> dir, tokens |-> NoDocs, extra |-> FALSE, json |-> DocsOf(list)]] :
        dir \in BOOLEAN,
        list \in [1..Len(StandardNames) -> {DocAbsent, DocBroken, DocData(<<>>)}]}

\* ------------------------------------------------------------- the program

VARIABLES
    source,              \* how the token files of a resolver run were written
                         \* (history: no action reads it)
    files,               \* the token source: one tier each for primitives,
                         \* semantic and component
    OKLCH_ENABLED,       \* --oklch
    MODERN_CSS_ENABLED,  \* --modern-css
    pc,                  \* where generate() stands
    format,              \* what detectFormat returned
    primitiveRefMap,
    resolvedSemantic,
    semanticRefMap,
    resolvedComponent,
    warnings,            \* the references console.warn reported, in order
    generators,          \* the list buildThreeTierGenerators returned
    rootVars,
    darkVars,
    lightVars,
    allOklchColors,
    css,                 \* the text assemble returned
    outFile,             \* the writes made to generated/tokens.css, in order
    err,                 \* the exception that ended the run, "none" if none
    color,               \* the value toOklch is called with, when the
                         \* converter is run on its own
    oklch,               \* what that call returned
    rulesFile            \* the writes the rules script (lines 1-857) made to
                         \* generated/.design-rules.json, in order

vars ==
    <<source, files, OKLCH_ENABLED, MODERN_CSS_ENABLED, pc, format, primitiveRefMap,
      resolvedSemantic, semanticRefMap, resolvedComponent, warnings, generators,
      rootVars, darkVars, lightVars, allOklchColors, css, outFile, err,
      color, oklch, rulesFile>>

inputVars == <<source, files, OKLCH_ENABLED, MODERN_CSS_ENABLED>>
tierVars  == <<primitiveRefMap, resolvedSemantic, semanticRefMap,
               resolvedComponent, warnings>>
bucketVars == <<rootVars, darkVars, lightVars, allOklchColors>>
\* What a run of generate() never touches.
apartVars == <<color, oklch, rulesFile>>

\* toOklch has not been called / has returned text (null is <<>>).
NotCalled == [called |-> FALSE, text |-> <<>>]
Returned(text) == [called |-> TRUE, text |-> text]

\* Nothing has run yet.
Blank ==
    /\ format = ""
    /\ primitiveRefMap = EmptyMap
    /\ resolvedSemantic = <<>>
    /\ semanticRefMap = EmptyMap
    /\ resolvedComponent = <<>>
    /\ warnings = <<>>
    /\ generators = <<>>
    /\ rootVars = <<>>
    /\ darkVars = <<>>
    /\ lightVars = <<>>
    /\ allOklchColors = <<>>
    /\ css = <<>>
    /\ outFile = <<>>
    /\ err = "none"
    /\ oklch = NotCalled
    /\ rulesFile = <<>>

\* The state at the call of generate(), whatever the token source.
Fresh ==
    /\ pc = "start"
    /\ Blank

Init ==
    /\ source = NoSource
    /\ color = <<>>
    /\ \/ files \in [primitives : PrimitiveChoices,
                     semantic   : {TierOk(l) : l \in SubLists(SemanticPool, MaxSemantic)}
                                  \cup {TierAbsent},
                     component  : ComponentChoices,
                     top        : {NoTop}]
       \/ files \in FlatSources
    /\ OKLCH_ENABLED \in BOOLEAN
    /\ MODERN_CSS_ENABLED \in BOOLEAN
    /\ Fresh

\* A resolver run: the primitives a and b, one semantic token, no component
\* tier, both flags off.
InitResolve ==
    /\ source \in [value : ValueSources, lookup : LookupSources]
    /\ color = <<>>
    /\ files = [primitives |->
                  TierOk(<<Tok(<< <<"a">> >>, valueOf(source.lookup.a), "other", "none"),
                           Tok(<< <<"b">> >>, valueOf(source.lookup.b), "other", "none")>>),
                semantic  |->
                  TierOk(<<Tok(pResolved, valueOf(source.value), "other", "none")>>),
                component |-> TierAbsent,
                top       |-> NoTop]
    /\ OKLCH_ENABLED = FALSE
    /\ MODERN_CSS_ENABLED = FALSE
    /\ Fresh

\* detectFormat with the flat alias format tried first.
detectFormat_topFirst(f) ==
    IF f.top.extra \/ \E n \in DOMAIN f.top.tokens : f.top.tokens[n].state # "absent"
    THEN "dtcg"
    ELSE IF f.primitives.state \in {"ok", "broken"} THEN "three-tier"
    ELSE "legacy"

\* detectFormat, tokens/ being there: three-tier when primitives/ is a
\* directory that holds a *.tokens.json file, else dtcg when tokens/ holds one,
\* else legacy.  A file is there whether it parses or not.
detectFormat(f) ==
    IF f.primitives.state \in {"ok", "broken"} THEN "three-tier"
    ELSE IF f.top.extra
            \/ \E n \in DOMAIN f.top.tokens : f.top.tokens[n].state # "absent"
    THEN "dtcg"
    ELSE "legacy"

\* The run ends with an uncaught exception.
Crash(kind) ==
    /\ err' = kind
    /\ pc' = "crashed"

\* detectFormat() as generate() calls it; readdirSync(TOKENS_DIR) throws when
\* tokens/ is missing.  The three-tier format goes on to
\* buildThreeTierGenerators, the other two to their fixed generator list.
DetectFormat ==
    /\ pc = "start"
    /\ IF ~files.top.dir
       THEN Crash("ENOENT") /\ UNCHANGED format
       ELSE /\ format' = detectFormat(files)
            /\ pc' = IF detectFormat(files) = "three-tier"
                     THEN "primitives" ELSE "generators"
            /\ UNCHANGED err
    /\ UNCHANGED <<inputVars, apartVars, tierVars, generators, bucketVars, css, outFile>>

\* buildThreeTierGenerators, step 1: loadTierTokens('primitives'), buildRefMap.
LoadPrimitives ==
    /\ pc = "primitives"
    /\ format = "three-tier"
    /\ IF files.primitives.state = "broken"
       THEN Crash("SyntaxError") /\ UNCHANGED primitiveRefMap
       ELSE /\ primitiveRefMap' = buildRefMap(files.primitives.tokens)
            /\ pc' = "semantic"
            /\ UNCHANGED err
    /\ UNCHANGED <<inputVars, apartVars, format, resolvedSemantic, semanticRefMap,
                   resolvedComponent, warnings, generators, bucketVars, css, outFile>>

\* Step 2: the semantic tier, resolved against the primitives.
ResolveSemantic ==
    /\ pc = "semantic"
    /\ IF files.semantic.state = "broken"
       THEN Crash("SyntaxError")
            /\ UNCHANGED <<resolvedSemantic, semanticRefMap, warnings>>
       ELSE LET r == resolveTierTokens(files.semantic.tokens, primitiveRefMap)
            IN  IF ~r.ok
                THEN Crash("RangeError")
                     /\ UNCHANGED <<resolvedSemantic, semanticRefMap, warnings>>
                ELSE /\ resolvedSemantic' = r.tokens
                     /\ semanticRefMap' = Spread(primitiveRefMap, buildRefMap(r.tokens))
                     /\ warnings' = warnings \o r.w
                     /\ pc' = "component"
                     /\ UNCHANGED err
    /\ UNCHANGED <<inputVars, apartVars, format, primitiveRefMap, resolvedComponent,
                   generators, bucketVars, css, outFile>>

\* Step 3: the component tier, resolved against primitives and semantic.
ResolveComponent ==
    /\ pc = "component"
    /\ IF files.component.state = "broken"
       THEN Crash("SyntaxError") /\ UNCHANGED <<resolvedComponent, warnings>>
       ELSE LET r == resolveTierTokens(files.component.tokens, semanticRefMap)
            IN  IF ~r.ok
                THEN Crash("RangeError") /\ UNCHANGED <<resolvedComponent, warnings>>
                ELSE /\ resolvedComponent' = r.tokens
                     /\ warnings' = warnings \o r.w
                     /\ pc' = "generators"
                     /\ UNCHANGED err
    /\ UNCHANGED <<inputVars, apartVars, format, primitiveRefMap, resolvedSemantic,
                   semanticRefMap, generators, bucketVars, css, outFile>>

\* The rest of buildThreeTierGenerators: the generator list over allResolved;
\* for the other formats, the list generate() writes down.
BuildGenerators ==
    /\ pc = "generators"
    /\ generators' = IF format = "three-tier"
                     THEN GeneratorList(resolvedSemantic \o resolvedComponent)
                     ELSE FlatGeneratorList
    /\ pc' = "assemble"
    /\ UNCHANGED <<inputVars, apartVars, format, tierVars, bucketVars, css, outFile, err>>

\* The least index of results whose call threw, 0 when none did.
FirstThrown(results) ==
    IF \A i \in 1..Len(results) : results[i].x.ok THEN 0
    ELSE CHOOSE i \in 1..Len(results) :
           /\ ~results[i].x.ok
           /\ \A m \in 1..(i - 1) : results[m].x.ok

\* result = fn() for every generator of the list, in list order.
ResultsOf(gens, fmt, f, oklchOn) ==
    MapSeq(gens, LAMBDA g : [name |-> g.name, x |-> Call(fmt, g, f, oklchOn)])

\* The loop of assemble over those results: what the first failing call
\* threw ends the run, the warnings printed before staying printed; else the
\* lines of every generator are pushed to the three buckets under its name
\* comment.
Pushes(results, thrown) ==
    IF thrown # 0
    THEN /\ Crash(results[thrown].x.e)
         /\ warnings' = warnings \o Flatten(MapSeq(SubSeq(results, 1, thrown - 1),
                                                   LAMBDA x : x.x.w))
         /\ UNCHANGED bucketVars
    ELSE /\ rootVars' = Flatten(MapSeq(results, LAMBDA x : pushed(x.name, x.x.r.root)))
         /\ lightVars' = Flatten(MapSeq(results, LAMBDA x : pushed(x.name, x.x.r.light)))
         /\ darkVars' = Flatten(MapSeq(results, LAMBDA x : pushed(x.name, x.x.r.dark)))
         /\ allOklchColors' = Flatten(MapSeq(results, LAMBDA x : x.x.r.oklchColors))
         /\ warnings' = warnings \o Flatten(MapSeq(results, LAMBDA x : x.x.w))
         /\ pc' = "sections"
         /\ UNCHANGED err

Assemble(results) == Pushes(results, FirstThrown(results))

\* The loop of assemble, writing the root bucket out as soon as it is filled.
RunGenerators_interimWrite ==
    /\ pc = "assemble"
    /\ Assemble(ResultsOf(generators, format, files, OKLCH_ENABLED))
    /\ outFile' = IF pc' = "sections"
                  THEN Append(outFile, Join(rootVars', <<"\n">>))
                  ELSE outFile
    /\ UNCHANGED <<inputVars, apartVars, format, primitiveRefMap, resolvedSemantic,
                   semanticRefMap, resolvedComponent, generators, css>>

\* The loop of assemble: every generator runs, in list order.  A generator of
\* the dtcg and legacy formats reads its file when it runs.
RunGenerators ==
    /\ pc = "assemble"
    /\ Assemble(ResultsOf(generators, format, files, OKLCH_ENABLED))
    /\ UNCHANGED <<inputVars, apartVars, format, primitiveRefMap, resolvedSemantic,
                   semanticRefMap, resolvedComponent, generators, css, outFile>>

\* The rest of assemble: the sections, joined; the header reads the clock.
BuildSections ==
    /\ pc = "sections"
    /\ \E d \in Dates :
         css' = sectionsText(rootVars, darkVars, lightVars, allOklchColors,
                             OKLCH_ENABLED, MODERN_CSS_ENABLED, d)
    /\ pc' = "write"
    /\ UNCHANGED <<inputVars, apartVars, format, tierVars, generators, bucketVars, outFile, err>>

\* fs.writeFileSync(OUTPUT_FILE, css + '\n')
WriteFile ==
    /\ pc = "write"
    /\ outFile' = Append(outFile, css \o <<"\n">>)
    /\ pc' = "done"
    /\ UNCHANGED <<inputVars, apartVars, format, tierVars, generators, bucketVars, css, err>>

Next ==
    \/ DetectFormat
    \/ LoadPrimitives
    \/ ResolveSemantic
    \/ ResolveComponent
    \/ BuildGenerators
    \/ RunGenerators
    \/ BuildSections
    \/ WriteFile

Spec == Init /\ [][Next]_vars

SpecResolve == InitResolve /\ [][Next]_vars

\* ---- the converter on its own

NoFiles ==
    [primitives |-> TierAbsent, semantic |-> TierAbsent, component |-> TierAbsent,
     top |-> NoTop]

InitConvert ==
    /\ source = NoSource
    /\ files = NoFiles
    /\ OKLCH_ENABLED = TRUE
    /\ MODERN_CSS_ENABLED = FALSE
    /\ color \in ConverterValues
    /\ pc = "convert"
    /\ Blank

\* const oklch = toOklch(value)
Convert ==
    /\ pc = "convert"
    /\ ~oklch.called
    /\ oklch' = Returned(toOklch(color))
    /\ pc' = "done"
    /\ UNCHANGED <<inputVars, color, rulesFile, format, tierVars, generators,
                   bucketVars, css, outFile, err>>

NextConvert == Convert

SpecConvert == InitConvert /\ [][NextConvert]_vars

\* ---- the rules script (lines 1-857)

\* The generate...Rules functions of lines 61-400, called in turn: each loads
\* its file with the loadJSON of line 29, which gives null for a file that is
\* not there and lets JSON.parse throw on one that does not parse.
loadRules(docs) ==
    IF \E n \in DOMAIN docs : docs[n].state = "broken"
    THEN Threw("SyntaxError")
    ELSE Ran(RootOnly(<<>>), <<>>)

\* generateComponentConstraints: its first statement reads SYSTEMS_DIR and
\* systemName, which the script declares nowhere.
generateComponentConstraints == Threw("ReferenceError")

\* The rules document, as far as it is looked at: the date it was built on.
RulesDocument(date) == [generated |-> date]

\* The script from its first line to the end of generateRules().
GenerateRules ==
    /\ pc = "rules"
    /\ IF ~files.top.dir
       THEN Crash("exit 1") /\ UNCHANGED rulesFile
       ELSE IF ~loadRules(files.top.json).ok
       THEN Crash(loadRules(files.top.json).e) /\ UNCHANGED rulesFile
       ELSE IF ~generateComponentConstraints.ok
       THEN Crash(generateComponentConstraints.e) /\ UNCHANGED rulesFile
       ELSE /\ \E date \in Dates : rulesFile' = Append(rulesFile, RulesDocument(date))
            /\ pc' = "done"
            /\ UNCHANGED err
    /\ UNCHANGED <<inputVars, color, oklch, format, tierVars, generators,
                   bucketVars, css, outFile>>

InitRules ==
    /\ source = NoSource
    /\ files \in RulesSources
    /\ OKLCH_ENABLED = FALSE
    /\ MODERN_CSS_ENABLED = FALSE
    /\ color = <<>>
    /\ pc = "rules"
    /\ Blank

NextRules == GenerateRules

SpecRules == InitRules /\ [][NextRules]_vars

\* ============================================================ properties

\* ---- the resolver runs (SpecResolve): how the token files were written

Lookup(k) == IF k = "a" THEN source.lookup.a ELSE source.lookup.b

LookupKeys == {"a", "b"}

\* The keys a written value refers to, and the kinds of its pieces.
RECURSIVE SrcRefs(_)
SrcRefs(src) ==
    CASE src.k = "text" -> {src.p[i].x : i \in {j \in 1..Len(src.p) : src.p[j].t = "ref"}}
      [] src.k = "num"  -> {}
      [] src.k = "obj"  -> UNION {SrcRefs(src.e[i].val) : i \in 1..Len(src.e)}
      [] src.k = "arr"  -> UNION {SrcRefs(src.a[i]) : i \in 1..Len(src.a)}

RECURSIVE PieceKinds(_)
PieceKinds(src) ==
    CASE src.k = "text" -> {src.p[i].t : i \in 1..Len(src.p)}
      [] src.k = "num"  -> {}
      [] src.k = "obj"  -> UNION {PieceKinds(src.e[i].val) : i \in 1..Len(src.e)}
      [] src.k = "arr"  -> UNION {PieceKinds(src.a[i]) : i \in 1..Len(src.a)}

\* The lookup keys reachable from a written value through references.
Reach(src) ==
    LET r0 == SrcRefs(src) \cap LookupKeys
        r1 == r0 \cup (UNION {SrcRefs(Lookup(k)) : k \in r0} \cap LookupKeys)
    IN  r1 \cup (UNION {SrcRefs(Lookup(k)) : k \in r1} \cap LookupKeys)

\* Some reference chain from the value comes back to a key it went through.
Cyclic(src) == \E k \in Reach(src) : k \in Reach(Lookup(k))

\* Braces occur in the value, and in every value reachable from it, only as
\* the delimiters of an alias.
NoStrayBrace(src) ==
    /\ PieceKinds(src) \cap {"open", "close"} = {}
    /\ \A k \in Reach(src) : PieceKinds(Lookup(k)) \cap {"open", "close"} = {}

IsSingleAlias(src) ==
    src.k = "text" /\ Len(src.p) = 1 /\ src.p[1].t = "ref"

\* The written value a chain of full-value aliases ends at.
RECURSIVE ChainEnd(_, _)
ChainEnd(src, fuel) ==
    IF fuel > 0 /\ IsSingleAlias(src) /\ src.p[1].x \in LookupKeys
    THEN ChainEnd(Lookup(src.p[1].x), fuel - 1)
    ELSE src

EndOf(src) == ChainEnd(src, Cardinality(LookupKeys) + 1)

\* A literal: no alias in it, and no "{" that could open one.
IsLiteral(src) == PieceKinds(src) \cap {"ref", "open"} = {}

\* What substitution means, read off the pieces: a word is itself, an alias of
\* a key the lookup lacks is itself, an alias of a key it holds is the text of
\* what that key's value resolves to.
RECURSIVE ExpString(_, _)
ExpString(src, fuel) ==
    IF fuel = 0 THEN <<>>
    ELSE CASE src.k = "text" ->
                Flatten(MapSeq(src.p, LAMBDA p :
                    IF p.t = "ref" /\ p.x \in LookupKeys
                    THEN ExpString(Lookup(p.x), fuel - 1)
                    ELSE renderPiece(p)))
           [] src.k = "num" -> <<ToString(src.n)>>
           [] src.k = "obj" -> <<"[object Object]">>
           [] src.k = "arr" ->
                Join(MapSeq(src.a, LAMBDA x : ExpString(x, fuel - 1)), <<",">>)

RECURSIVE ExpValue(_, _)
ExpValue(src, fuel) ==
    IF fuel = 0 THEN Str(<<>>)
    ELSE IF IsSingleAlias(src)
         THEN IF src.p[1].x \in LookupKeys
              THEN ExpValue(Lookup(src.p[1].x), fuel - 1)
              ELSE valueOf(src)
    ELSE CASE src.k = "text" -> Str(ExpString(src, fuel))
           [] src.k = "obj"  ->
                Obj(MapSeq(src.e, LAMBDA f :
                      [key |-> f.key, val |-> ExpValue(f.val, fuel - 1)]))
           [] OTHER -> valueOf(src)

Expected(src) == ExpValue(src, StackDepth)

\* The semantic tier has been resolved.
Resolved ==
    /\ format = "three-tier"
    /\ pc \in {"component", "generators", "assemble", "sections", "write", "done"}

\* C1: a token whose value is exactly one alias, whose chain of full-value
\* aliases ends at a literal of the lookup, resolves to that literal itself:
\* a number stays a number, a composite a composite, a sequence a sequence.
C1_FullAliasKeepsType ==
    (/\ Resolved
     /\ IsSingleAlias(source.value)
     /\ source.value.p[1].x \in LookupKeys
     /\ IsLiteral(EndOf(source.value)))
    => resolvedSemantic[1].value = valueOf(EndOf(source.value))

C1_Witness ==
    /\ pc = "done"
    /\ source.value = SrcText(<<RefTo("a")>>)
    /\ source.lookup.a = SrcText(<<RefTo("b")>>)
    /\ source.lookup.b = LiteralObj
    /\ resolvedSemantic[1].value.k = "obj"

\* C2: a run whose token refers into a cyclic alias chain ends with a
\* cyclic-reference error.
C2_CycleRaisesCyclicReferenceError ==
    (pc = "crashed" /\ Cyclic(source.value)) => err = "CyclicReferenceError"

\* C3: a token whose text holds an alias of a path the lookup lacks keeps
\* that alias text where it stands (the whole value for a full-value alias,
\* the occurrence for an embedded one, the other aliases substituted), the
\* path is reported in a warning, and the run goes on to write its output,
\* which declares the token with that text.
C3_UnresolvedAliasKept ==
    (/\ source.value.k = "text"
     /\ "zz" \in SrcRefs(source.value)
     /\ NoStrayBrace(source.value)
     /\ ~Cyclic(source.value))
    => /\ err = "none"
       /\ pc # "crashed"
       /\ Resolved =>
            /\ resolvedSemantic[1].value = Expected(source.value)
            /\ resolvedSemantic[1].value.k = "str"
            /\ \E i \in 1..Len(resolvedSemantic[1].value.s) - 2 :
                 SubSeq(resolvedSemantic[1].value.s, i, i + 2) = <<"{", "zz", "}">>
            /\ \E i \in 1..Len(warnings) : warnings[i] = <<"zz">>
       /\ pc = "done" =>
            /\ Len(outFile) = 1
            /\ \E i \in 1..Len(rootVars) :
                 rootVars[i] = cssVar(<<"space", "-", "1">>,
                                      resolvedSemantic[1].value.s)

C3_Witness ==
    /\ pc = "done"
    /\ source.value = SrcText(<<RefTo("zz"), RefTo("a")>>)
    /\ source.lookup.a = SrcNum(8)
    /\ resolvedSemantic[1].value = Str(<<"{", "zz", "}", "8">>)
    /\ warnings = << <<"zz">> >>
    /\ Len(outFile) = 1

\* A string value that embeds aliases, all of whose paths were found.
EmbedsFoundAliases ==
    /\ Resolved
    /\ source.value.k = "text"
    /\ Len(source.value.p) >= 2
    /\ SrcRefs(source.value) # {}
    /\ warnings = <<>>
    /\ resolvedSemantic[1].value.k = "str"

\* C4 as stated: a string that embeds aliases, every referenced path being in
\* the lookup, resolves to a string without "{" and "}".
C4_NoBracesLeft ==
    EmbedsFoundAliases => ~HasBrace(resolvedSemantic[1].value.s)

\* C4, amended: the same, for values in which (as in every value they refer
\* to) a brace is only ever the delimiter of an alias.
C4_NoBracesLeftWhenWellFormed ==
    (EmbedsFoundAliases /\ NoStrayBrace(source.value))
    => ~HasBrace(resolvedSemantic[1].value.s)

C4_Witness ==
    /\ Resolved
    /\ source.value = SrcText(<<Word("x"), RefTo("a")>>)
    /\ source.lookup.a = SrcText(<<Word("x"), RefTo("b")>>)
    /\ source.lookup.b = SrcNum(5)
    /\ warnings = <<>>
    /\ resolvedSemantic[1].value = Str(<<"x", "x", "5">>)

\* ---- the pipeline runs (Spec)

PrimitiveKeys == {DotPath(files.primitives.tokens[i].path) :
                    i \in 1..Len(files.primitives.tokens)}
SemanticKeys  == {DotPath(files.semantic.tokens[i].path) :
                    i \in 1..Len(files.semantic.tokens)}
ComponentKeys == {DotPath(files.component.tokens[i].path) :
                    i \in 1..Len(files.component.tokens)}

\* The component tier has been resolved too.
AllResolved ==
    /\ format = "three-tier"
    /\ pc \in {"generators", "assemble", "sections", "write", "done"}

IsFullAlias(value) == value.k = "str" /\ IsFullRef(value.s)
AliasKey(value) == SubSeq(value.s, 2, Len(value.s) - 1)

Warned(key) == \E i \in 1..Len(warnings) : warnings[i] = key

\* A token that is one alias of a key outside keys came out of the resolver
\* as it went in, and the key was reported.
KeptUnresolved(written, resolved, keys) ==
    \A i \in 1..Len(written) :
       (IsFullAlias(written[i].value) /\ AliasKey(written[i].value) \notin keys)
       => /\ resolved[i].value = written[i].value
          /\ Warned(AliasKey(written[i].value))

\* C5: the semantic tier is resolved against a lookup of the primitives only,
\* the component tier against a lookup of primitives and semantic only; an
\* alias of a path that only the own or a later tier defines is kept as it is
\* and reported.
C5_TierResolutionOneDirectional ==
    /\ Resolved =>
         /\ DOMAIN primitiveRefMap = PrimitiveKeys
         /\ DOMAIN semanticRefMap = PrimitiveKeys \cup SemanticKeys
         /\ KeptUnresolved(files.semantic.tokens, resolvedSemantic, PrimitiveKeys)
    /\ AllResolved =>
         KeptUnresolved(files.component.tokens, resolvedComponent,
                        PrimitiveKeys \cup SemanticKeys)

C5_Witness ==
    /\ AllResolved
    /\ DotPath(sRadius20) \in SemanticKeys
    /\ \E i \in 1..Len(resolvedSemantic) :
         /\ resolvedSemantic[i].path = sSize1
         /\ resolvedSemantic[i].value = Alias(sRadius20)
    /\ \E i \in 1..Len(resolvedComponent) :
         /\ resolvedComponent[i].path = cCardPad
         /\ resolvedComponent[i].value = Alias(cCardRadius)
    /\ \E i \in 1..Len(resolvedComponent) :
         /\ resolvedComponent[i].path = cCardRadius
         /\ resolvedComponent[i].value.k = "num"
    /\ Warned(DotPath(sRadius20))
    /\ Warned(DotPath(cCardRadius))

\* A stored value is, or contains, an alias of a key of the lookup it is in.
HoldsAliasOf(value, refMap) ==
    /\ value.k = "str"
    /\ \E i \in 1..Len(value.s) : \E j \in (i + 2)..Len(value.s) :
         /\ value.s[i] = "{"
         /\ value.s[j] = "}"
         /\ SubSeq(value.s, i + 1, j - 1) \in DOMAIN refMap

\* C6: no value stored in the primitives lookup or in the primitives+semantic
\* lookup is, or contains, an alias of a key of that lookup.
C6_LookupHoldsResolvedLiterals ==
    /\ \A k \in DOMAIN primitiveRefMap :
         ~HoldsAliasOf(primitiveRefMap[k], primitiveRefMap)
    /\ \A k \in DOMAIN semanticRefMap :
         ~HoldsAliasOf(semanticRefMap[k], semanticRefMap)

\* C7: the output file is written at most once, by the step that follows the
\* assembly, with the whole assembled text, in a run no error has ended; when
\* an error ends the run nothing has been written and nothing is written
\* after it.
C7_WrittenOnceAtTheEnd ==
    [][/\ outFile' # outFile =>
            /\ pc = "write"
            /\ pc' = "done"
            /\ err = "none"
            /\ err' = "none"
            /\ outFile = <<>>
            /\ outFile' = <<css \o <<"\n">>>>
            /\ \E d \in Dates :
                 css = sectionsText(rootVars, darkVars, lightVars, allOklchColors,
                                    OKLCH_ENABLED, MODERN_CSS_ENABLED, d)
       /\ err' # "none" => outFile' = <<>>
       /\ err # "none" => (outFile = <<>> /\ outFile' = <<>>)]_vars

C7_Witness ==
    /\ pc = "crashed"
    /\ err = "SyntaxError"
    /\ resolvedSemantic # <<>>
    /\ outFile = <<>>

\* C8: the text written is the text the same token source and flags give on
\* any day.
C8_OutputIndependentOfRunDate ==
    pc = "done" =>
      \A d \in Dates :
         outFile[1] = sectionsText(rootVars, darkVars, lightVars, allOklchColors,
                                   OKLCH_ENABLED, MODERN_CSS_ENABLED, d) \o <<"\n">>

\* A line that declares a custom property: "  --<name>: <value>;".
ColonAt(line) ==
    CHOOSE c \in 1..Len(line) : line[c] = ":" /\ \A m \in 1..(c - 1) : line[m] # ":"

IsDecl(line) ==
    /\ \E c \in 1..Len(line) : line[c] = ":"
    /\ ColonAt(line) > 5
    /\ ColonAt(line) + 2 <= Len(line) - 1
    /\ line = cssVar(SubSeq(line, 5, ColonAt(line) - 1),
                     SubSeq(line, ColonAt(line) + 2, Len(line) - 1))

DeclName(line)  == SubSeq(line, 5, ColonAt(line) - 1)
DeclValue(line) == SubSeq(line, ColonAt(line) + 2, Len(line) - 1)

\* Where a bucket declares a name; the declaration that counts is the last.
DeclsOf(bucket, name) ==
    {i \in 1..Len(bucket) : IsDecl(bucket[i]) /\ DeclName(bucket[i]) = name}

DeclaredIn(bucket) ==
    {DeclName(bucket[i]) : i \in {j \in 1..Len(bucket) : IsDecl(bucket[j])}}

ValueIn(bucket, name) ==
    DeclValue(bucket[CHOOSE i \in DeclsOf(bucket, name) :
                       \A j \in DeclsOf(bucket, name) : j <= i])

IsColorName(name) == Len(name) > 2 /\ name[1] = "color" /\ name[2] = "-"

\* The buckets are filled.
Assembled == pc \in {"sections", "write", "done"}

\* C9: the dual-theme collapse declares each color property that both the
\* dark and the light bucket declare exactly once, as
\* light-dark(<light value>, <dark value>), and declares nothing else.
C9_LightDarkCollapse ==
    (Assembled /\ MODERN_CSS_ENABLED) =>
      LET out == generateLightDarkVars(darkVars, lightVars)
      IN  /\ \A n \in DeclaredIn(darkVars) \cap DeclaredIn(lightVars) :
               IsColorName(n) =>
                 /\ Cardinality(DeclsOf(out, n)) = 1
                 /\ ValueIn(out, n) =
                      <<"light-dark(">> \o ValueIn(lightVars, n) \o <<",", " ">>
                      \o ValueIn(darkVars, n) \o <<")">>
          /\ \A i \in 1..Len(out) :
               /\ IsDecl(out[i])
               /\ IsColorName(DeclName(out[i]))
               /\ DeclName(out[i]) \in DeclaredIn(darkVars) \cap DeclaredIn(lightVars)

C9_Witness ==
    /\ pc = "done"
    /\ MODERN_CSS_ENABLED
    /\ Len(generateLightDarkVars(darkVars, lightVars)) = 1
    /\ \E n \in DeclaredIn(darkVars) \cap DeclaredIn(lightVars) :
         IsColorName(n) /\ ValueIn(darkVars, n) # ValueIn(lightVars, n)
    /\ \E n \in DeclaredIn(darkVars) \ DeclaredIn(lightVars) : IsColorName(n)
    /\ \E n \in DeclaredIn(darkVars) \cap DeclaredIn(lightVars) : ~IsColorName(n)

\* The accent or action color declarations of a bucket, in order.
AccentDecls(bucket) ==
    SelectSeq(bucket, LAMBDA line : IsDecl(line) /\ isAccentOrActionColor(DeclName(line)))

\* out holds the -hover and the -active property of each accent declaration
\* of bucket, in that order, and nothing else.
TwoPerAccent(out, bucket) ==
    /\ Len(out) = 2 * Len(AccentDecls(bucket))
    /\ \A i \in 1..Len(out) : IsDecl(out[i])
    /\ \A k \in 1..Len(AccentDecls(bucket)) :
         /\ DeclName(out[2 * k - 1]) = DeclName(AccentDecls(bucket)[k]) \o <<"-", "hover">>
         /\ DeclName(out[2 * k]) = DeclName(AccentDecls(bucket)[k]) \o <<"-", "active">>

\* C10: interaction-state derivation gives each bucket the -hover and -active
\* property of each accent or action color declaration of that bucket, and
\* nothing else.
C10_InteractionStatesPerBucket ==
    (Assembled /\ MODERN_CSS_ENABLED) =>
      LET out == generateColorMixVars(rootVars, darkVars, lightVars)
      IN  /\ TwoPerAccent(out.root, rootVars)
          /\ TwoPerAccent(out.dark, darkVars)
          /\ TwoPerAccent(out.light, lightVars)

C10_Witness ==
    /\ pc = "done"
    /\ MODERN_CSS_ENABLED
    /\ Len(AccentDecls(darkVars)) = 1
    /\ AccentDecls(lightVars) = <<>>
    /\ AccentDecls(rootVars) = <<>>
    /\ Len(generateColorMixVars(rootVars, darkVars, lightVars).dark) = 2
    /\ generateColorMixVars(rootVars, darkVars, lightVars).light = <<>>
    /\ generateColorMixVars(rootVars, darkVars, lightVars).root = <<>>

\* The parts of an @property rule: its name, descriptor and initial value.
PropBrace(d) == CHOOSE i \in 1..Len(d) : d[i] = " {\n"
PropName(d) == SubSeq(d, 4, PropBrace(d) - 1)
PropSyntax(d) == d[PropBrace(d) + 2]
PropInit(d) == SubSeq(d, PropBrace(d) + 6, Len(d) - 3)

IsPropertyRule(d) ==
    /\ \E i \in 1..Len(d) : d[i] = " {\n"
    /\ d = <<"@property ", "-", "-">> \o PropName(d)
           \o <<" {\n", "  syntax: '", PropSyntax(d), "';\n",
                "  inherits: true;\n", "  initial-value: ">>
           \o PropInit(d) \o <<";", "\n", "}">>

\* The value of the first declaration of a name among lines.
FirstValueIn(lines, name) ==
    DeclValue(lines[CHOOSE i \in DeclsOf(lines, name) :
                      \A j \in DeclsOf(lines, name) : i <= j])

\* Names the typed declarations must leave out.
Untypeable(name) ==
    \/ StartsWith(name, <<"shadow", "-">>)
    \/ StartsWith(name, <<"font", "-", "family">>)
    \/ StartsWith(name, <<"easing">>)
    \/ StartsWith(name, <<"border", "-", "style">>)

\* C11: typed-declaration generation gives one @property rule to each name
\* declared in the root lines followed by the dark lines that has a type
\* descriptor, with the value of the name's first declaration in that order
\* as initial value, and none to any other name.
C11_OneTypedDeclarationPerName ==
    (Assembled /\ MODERN_CSS_ENABLED) =>
      LET merged == rootVars \o darkVars
          out    == generatePropertyDeclarations(rootVars, darkVars)
          typed  == {n \in DeclaredIn(merged) : inferSyntax(n) # ""}
      IN  /\ Len(out) = Cardinality(typed)
          /\ \A i \in 1..Len(out) :
               /\ IsPropertyRule(out[i])
               /\ PropName(out[i]) \in typed
               /\ ~Untypeable(PropName(out[i]))
          /\ \A n \in typed :
               \E i \in 1..Len(out) :
                  /\ PropName(out[i]) = n
                  /\ PropSyntax(out[i]) = inferSyntax(n)
                  /\ PropInit(out[i]) = FirstValueIn(merged, n)

C11_Witness ==
    /\ pc = "done"
    /\ MODERN_CSS_ENABLED
    /\ \E n \in DeclaredIn(darkVars) :
         /\ inferSyntax(n) # ""
         /\ Cardinality(DeclsOf(darkVars, n)) = 2
         /\ FirstValueIn(darkVars, n) # ValueIn(darkVars, n)
    /\ \E n \in DeclaredIn(rootVars) : inferSyntax(n) # ""
    /\ \E n \in DeclaredIn(rootVars) : inferSyntax(n) = ""
    /\ Len(generatePropertyDeclarations(rootVars, darkVars)) = 2

\* How often a chunk occurs in a text, and whether a text occurs in another.
CountChunk(text, c) == Cardinality({i \in 1..Len(text) : text[i] = c})

Occurs(sub, text) ==
    \E i \in 0..(Len(text) - Len(sub)) : SubSeq(text, i + 1, i + Len(sub)) = sub

\* out holds, for each accent declaration of bucket in order, the property
\* named with the first and the one named with the second suffix, and no more.
PairPerAccent(out, bucket, first, second) ==
    /\ Len(out) = 2 * Len(AccentDecls(bucket))
    /\ \A i \in 1..Len(out) : IsDecl(out[i])
    /\ \A k \in 1..Len(AccentDecls(bucket)) :
         /\ DeclName(out[2 * k - 1]) = DeclName(AccentDecls(bucket)[k]) \o <<"-", first>>
         /\ DeclName(out[2 * k]) = DeclName(AccentDecls(bucket)[k]) \o <<"-", second>>

\* The stylesheet text is complete.
Texted == pc \in {"write", "done"}

\* The lines of a bucket's relative shades as the stylesheet holds them.
ShadesIn(opening, lines) ==
    Join(<< <<opening>> >> \o MapSeq(lines, LAMBDA l : <<" ", " ">> \o l), <<"\n">>)

\* C12: the stylesheet holds relative-color shades only when both flags are
\* set; then each bucket's block holds the -lighter and -darker property of
\* each accent or action color declaration of that bucket, and nothing else.
C12_RelativeShadesNeedBothFlags ==
    Texted =>
      LET out == generateRelativeColorVars(rootVars, darkVars, lightVars)
      IN  /\ ~(OKLCH_ENABLED /\ MODERN_CSS_ENABLED) =>
               CountChunk(css, "oklch(from var(") = 0
          /\ (OKLCH_ENABLED /\ MODERN_CSS_ENABLED) =>
               /\ PairPerAccent(out.root, rootVars, "lighter", "darker")
               /\ PairPerAccent(out.dark, darkVars, "lighter", "darker")
               /\ PairPerAccent(out.light, lightVars, "lighter", "darker")
               /\ CountChunk(css, "oklch(from var(") =
                    Len(out.root) + Len(out.dark) + Len(out.light)
               /\ out.root # <<>> => Occurs(ShadesIn("  :root {", out.root), css)
               /\ out.dark # <<>> => Occurs(ShadesIn("  .dark {", out.dark), css)
               /\ out.light # <<>> => Occurs(ShadesIn("  .light {", out.light), css)

C12_Witness ==
    /\ pc = "done"
    /\ OKLCH_ENABLED
    /\ MODERN_CSS_ENABLED
    /\ Len(AccentDecls(darkVars)) = 1
    /\ AccentDecls(lightVars) = <<>>
    /\ AccentDecls(rootVars) = <<>>
    /\ CountChunk(css, "oklch(from var(") = 2
    /\ Len(generateRelativeColorVars(rootVars, darkVars, lightVars).dark) = 2

\* The chunk each block of the stylesheet opens with, in the order the blocks
\* are to stand in.
BlockOpenings ==
    << ":root {", ".dark {", ".light {",
       "@media (prefers-color-scheme: dark) {",
       "@media (prefers-color-scheme: light) {",
       "@supports (color: oklch(0% 0 0)) {",
       "/* Modern CSS - progressive enhancement */",
       "/* @property - typed custom properties (enables transitions, validation) */",
       "@supports (color: color-mix(in oklch, red, blue)) {",
       "@supports (color: light-dark(red, blue)) {",
       "@supports (color: oklch(from red l c h)) {" >>

PosIn(text, c) == CHOOSE i \in 1..Len(text) : text[i] = c

\* Whether the block with the k-th opening has something to hold.
BlockDue(k) ==
    LET accents == AccentDecls(rootVars) \o AccentDecls(darkVars) \o AccentDecls(lightVars)
    IN  CASE k \in 1..5 -> TRUE
          [] k = 6  -> OKLCH_ENABLED /\ allOklchColors # <<>>
          [] k = 7  -> MODERN_CSS_ENABLED
          [] k = 8  -> /\ MODERN_CSS_ENABLED
                       /\ \E n \in DeclaredIn(rootVars \o darkVars) : inferSyntax(n) # ""
          [] k = 9  -> MODERN_CSS_ENABLED /\ accents # <<>>
          [] k = 10 -> /\ MODERN_CSS_ENABLED
                       /\ \E n \in DeclaredIn(darkVars) \cap DeclaredIn(lightVars) :
                            IsColorName(n)
          [] k = 11 -> MODERN_CSS_ENABLED /\ OKLCH_ENABLED /\ accents # <<>>

\* C13: the stylesheet holds each block that has something to hold exactly
\* once and no other, in the order root, dark, light, OS-preference dark,
\* OS-preference light, color-space block, enhancement block with its parts
\* typed declarations, interaction states, dual-theme collapse, relative
\* shades.
C13_BlockOrder ==
    Texted =>
      /\ \A k \in 1..Len(BlockOpenings) :
           CountChunk(css, BlockOpenings[k]) = IF BlockDue(k) THEN 1 ELSE 0
      /\ \A j, k \in 1..Len(BlockOpenings) :
           (j < k /\ BlockDue(j) /\ BlockDue(k))
           => PosIn(css, BlockOpenings[j]) < PosIn(css, BlockOpenings[k])

C13_Witness ==
    /\ pc = "done"
    /\ \A k \in 1..Len(BlockOpenings) :
         BlockDue(k) /\ CountChunk(css, BlockOpenings[k]) = 1

\* The generator list has been built.
Listed == pc \in {"assemble", "sections", "write", "done"}

\* The bucket a declaration of a token goes to, and the bucket itself.
BucketOf(t) == IF t.mode = "dark" THEN darkVars
               ELSE IF t.mode = "light" THEN lightVars ELSE rootVars

\* The path of a token joined by "-", without the last segment for a token
\* that carries a mode.
JoinedName(t) ==
    LET n == IF t.mode \in {"dark", "light"} THEN Len(t.path) - 1 ELSE Len(t.path)
    IN  Join([i \in 1..n |-> t.path[i]], <<"-">>)

\* C16: in the three-tier pipeline each resolved token whose leading segment
\* is no standard category is in exactly one catch-all generator, the one
\* named after that segment; that generator emits one line per token it
\* holds, the token's declaration is in the token's bucket and in the
\* stylesheet.
C16_CatchAllDropsNothing ==
    (format = "three-tier" /\ Listed) =>
      LET all   == resolvedSemantic \o resolvedComponent
          rest  == {i \in 1..Len(all) : all[i].path[1] \notin standardPrefixes}
          catch == {k \in 1..Len(generators) : generators[k].catchAll}
          Holds(k, t) == \E j \in 1..Len(generators[k].tokens) :
                            generators[k].tokens[j] = t
          Line(t) == cssVar(JoinedName(t), formatDTCGValue(t.value, t.type))
      IN  /\ \A i \in rest :
               /\ Cardinality({k \in catch : Holds(k, all[i])}) = 1
               /\ \A k \in catch :
                    Holds(k, all[i]) => generators[k].name = all[i].path[1]
               /\ Assembled =>
                    \E j \in 1..Len(BucketOf(all[i])) :
                       BucketOf(all[i])[j] = Line(all[i])
               /\ Texted => Occurs(Line(all[i]), css)
          /\ \A k \in catch :
               LET r == RunGenerator(generators[k], OKLCH_ENABLED)
               IN  /\ Len(r.root) + Len(r.dark) + Len(r.light)
                        = Len(generators[k].tokens)
                   /\ \A j \in 1..Len(generators[k].tokens) :
                        generators[k].tokens[j].path[1] = generators[k].name
          /\ \A j, k \in catch : j # k => generators[j].name # generators[k].name
          /\ (rest = {}) = (catch = {})

C16_Witness ==
    /\ pc = "done"
    /\ format = "three-tier"
    /\ \E k \in 1..Len(generators) :
         /\ generators[k].catchAll
         /\ generators[k].name = <<"button">>
         /\ Len(generators[k].tokens) = 2
    /\ \E j \in 1..Len(darkVars) :
         IsDecl(darkVars[j]) /\ DeclName(darkVars[j]) = <<"button", "-", "bg">>
    /\ \E j \in 1..Len(lightVars) :
         IsDecl(lightVars[j]) /\ DeclName(lightVars[j]) = <<"button", "-", "bg">>
\* The tokens of type color a color or catch-all generator of the run emits.
ColorTokens ==
    IF format = "three-tier"
    THEN SelectSeq(resolvedSemantic \o resolvedComponent,
                   LAMBDA t : /\ t.type = "color"
                              /\ \/ t.path[1] = <<"color">>
                                 \/ t.path[1] \notin standardPrefixes)
    ELSE IF format = "dtcg"
    THEN SelectSeq(files.top.tokens[<<"colors">>].tokens, LAMBDA t : t.type = "color")
    ELSE <<>>

\* The names of the declarations among lines.
NamesAmong(lines) ==
    {DeclName(lines[i]) : i \in {j \in 1..Len(lines) : IsDecl(lines[j])}}

\* C14: a color token whose value is neither a hex color nor oklch() text has
\* its declaration in its bucket, has no entry in the color-space block, and
\* has no -hover, -active, -lighter or -darker property derived from it in its
\* bucket.
C14_UnparseableColorExcluded ==
    Texted =>
      \A i \in 1..Len(ColorTokens) :
        LET t == ColorTokens[i]
            v == formatDTCGValue(t.value, t.type)
            name == JoinedName(t)
            mixed  == generateColorMixVars(rootVars, darkVars, lightVars)[ModeBucket(t)]
            shaded == generateRelativeColorVars(rootVars, darkVars,
                                                lightVars)[ModeBucket(t)]
        IN  ~isColorValue(v) =>
              /\ \E k \in 1..Len(BucketOf(t)) : BucketOf(t)[k] = cssVar(name, v)
              /\ \A k \in 1..Len(allOklchColors) :
                    ~(/\ allOklchColors[k].propName = name
                      /\ allOklchColors[k].hex = v)
              /\ MODERN_CSS_ENABLED =>
                    /\ name \o <<"-", "hover">> \notin NamesAmong(mixed)
                    /\ name \o <<"-", "active">> \notin NamesAmong(mixed)
                    /\ ~Occurs(hoverLine(name), css)
              /\ MODERN_CSS_ENABLED /\ OKLCH_ENABLED =>
                    /\ name \o <<"-", "lighter">> \notin NamesAmong(shaded)
                    /\ name \o <<"-", "darker">> \notin NamesAmong(shaded)
                    /\ ~Occurs(lighterLine(name), css)

\* The groups whose generator emits every token of the group, whatever the
\* length of its path.
EveryTokenGroups ==
    {<<"color">>, <<"border">>, <<"opacity">>, <<"z">>, <<"duration">>, <<"easing">>}

\* Tokens the run emits a declaration for: in the three-tier format the
\* resolved tokens of those groups and of the catch-all groups, in the flat
\* alias format the tokens of the files whose generator emits every token.
EmittedTokens ==
    IF format = "three-tier"
    THEN SelectSeq(resolvedSemantic \o resolvedComponent,
                   LAMBDA t : \/ t.path[1] \in EveryTokenGroups
                              \/ t.path[1] \notin standardPrefixes)
    ELSE IF format = "dtcg"
    THEN Flatten(MapSeq(<< <<"colors">>, <<"sizing">>, <<"radii">>, <<"borders">>,
                           <<"opacity">>, <<"z", "-", "index">>, <<"transitions">> >>,
                        LAMBDA n : files.top.tokens[n].tokens))
    ELSE <<>>

\* lines holds the declaration of value v under the name.
Declares(lines, name, v) ==
    \E k \in 1..Len(lines) : lines[k] = cssVar(name, v)

\* C15: the declaration of an emitted token with mode dark (light) is in the
\* dark (light) bucket, named by the path without its trailing mode segment,
\* and in no other bucket under that name or under the whole path; the
\* declaration of an emitted token without mode is in the root bucket and in
\* no other.
C15_ModeDecidesBucketNotName ==
    Assembled =>
      \A i \in 1..Len(EmittedTokens) :
        LET t == EmittedTokens[i]
            v == formatDTCGValue(t.value, t.type)
            whole == Join(t.path, <<"-">>)
        IN  IF t.mode \in {"dark", "light"}
            THEN /\ Declares(BucketOf(t), JoinedName(t), v)
                 /\ ~Declares(rootVars, JoinedName(t), v)
                 /\ ~Declares(rootVars, whole, v)
                 /\ ~Declares(darkVars, whole, v)
                 /\ ~Declares(lightVars, whole, v)
            ELSE /\ \/ Declares(rootVars, whole, v)
                    \/ Declares(rootVars, LastSeg(t.path), v)
                 /\ ~Declares(darkVars, whole, v)
                 /\ ~Declares(lightVars, whole, v)

\* The tokens the typography generator of the run is given.
TypographyInput ==
    IF format = "three-tier" THEN resolvedSemantic \o resolvedComponent
    ELSE IF format = "dtcg" THEN files.top.tokens[<<"typography">>].tokens
    ELSE <<>>

StyleKinds == <<"sizes", "lineHeights", "compositeWeights">>

\* The composite styles: the names a size, a line-height or a composite weight
\* token is filed under.
StyleNames ==
    {TypoKey(TypographyInput[i]) :
       i \in {j \in 1..Len(TypographyInput) :
                \E k \in 1..3 : TypoGroup(TypographyInput[j]) = StyleKinds[k]}}

HasKind(name, kind) ==
    \E i \in 1..Len(TypographyInput) :
      TypoGroup(TypographyInput[i]) = kind /\ TypoKey(TypographyInput[i]) = name

KindPrefix(kind) ==
    IF kind = "sizes" THEN <<"font", "-", "size", "-">>
    ELSE IF kind = "lineHeights" THEN <<"line", "-", "height", "-">>
    ELSE <<"font", "-", "weight", "-">>

\* The kinds of token a style has, in the order size, line-height, weight.
KindsOf(name) == SelectSeq(StyleKinds, LAMBDA kind : HasKind(name, kind))

\* C17: for every composite style, the root bucket holds the declarations of
\* the style's size, line-height and weight tokens, those the style has, on
\* adjacent lines in that order.
C17_StyleTriplesAdjacentAndComplete ==
    Assembled =>
      \A name \in StyleNames :
        \E k \in 1..Len(rootVars) :
          \A j \in 1..Len(KindsOf(name)) :
            /\ k + j - 1 <= Len(rootVars)
            /\ IsDecl(rootVars[k + j - 1])
            /\ DeclName(rootVars[k + j - 1]) = KindPrefix(KindsOf(name)[j]) \o name

\* primitives/ is a directory that holds a definition file, parsable or not.
PrimitivesHoldFile == files.primitives.state \notin {"absent", "empty"}

\* tokens/ holds a definition file at its top level, parsable or not.
TopHoldsFile ==
    \/ files.top.extra
    \/ \E n \in DOMAIN files.top.tokens : files.top.tokens[n].state # "absent"

\* C18: once format detection has returned, the format is three-tier exactly
\* when primitives/ holds a definition file, else flat alias exactly when the
\* top level holds one, else legacy, whether the files parse or not; with no
\* tokens/ directory the detection returns nothing and the run ends there.
C18_FormatByExistence ==
    pc # "start" =>
      IF files.top.dir
      THEN format = IF PrimitivesHoldFile THEN "three-tier"
                    ELSE IF TopHoldsFile THEN "dtcg"
                    ELSE "legacy"
      ELSE format = "" /\ pc = "crashed" /\ err = "ENOENT"

\* A source with an unparseable file in primitives/ and definition files at
\* the top level is taken as three-tier.
C18_Witness ==
    /\ format = "three-tier"
    /\ files.primitives.state = "broken"
    /\ files.top.tokens[<<"colors">>].state = "ok"
    /\ files.top.json[<<"colors">>].state = "ok"

\* A definition file the format of the run loads cannot be parsed.
LoadedBroken ==
    \/ /\ format = "three-tier"
       /\ \/ files.primitives.state = "broken"
          \/ files.semantic.state = "broken"
          \/ files.component.state = "broken"
    \/ /\ format = "dtcg"
       /\ \E n \in DOMAIN files.top.tokens : files.top.tokens[n].state = "broken"
    \/ /\ format = "legacy"
       /\ \E n \in DOMAIN files.top.json : files.top.json[n].state = "broken"

\* C19: in the three-tier format the tokens of an absent semantic or component
\* directory are the empty list and the run throws only for an unparseable
\* file it loads or for an alias cycle, never for the absent directory, and
\* when it is done it has written the stylesheet; in every format a run that
\* loads an unparseable definition file never gets to build the stylesheet
\* and writes nothing.
C19_AbsentTierToleratedBrokenFileFatal ==
    /\ (Resolved /\ files.semantic.state = "absent") => resolvedSemantic = <<>>
    /\ (AllResolved /\ files.component.state = "absent") => resolvedComponent = <<>>
    /\ (format = "three-tier" /\ pc = "crashed") =>
         \/ err = "SyntaxError" /\ LoadedBroken
         \/ err = "RangeError"
    /\ pc = "done" => (err = "none" /\ outFile = <<css \o <<"\n">>>>)
    /\ LoadedBroken =>
         /\ pc \notin {"sections", "write", "done"}
         /\ outFile = <<>>
         /\ css = <<>>

\* A three-tier run without a semantic directory has written a stylesheet
\* that holds the tokens of its component tier.
C19_Witness ==
    /\ pc = "done"
    /\ format = "three-tier"
    /\ files.semantic.state = "absent"
    /\ resolvedSemantic = <<>>
    /\ resolvedComponent # <<>>
    /\ outFile = <<css \o <<"\n">>>>

\* The radius tokens the radii generator of the run emits, as { key, val }:
\* the name segment and the value.
RadiusTokens ==
    IF format = "three-tier"
    THEN MapSeq(SelectSeq(resolvedSemantic \o resolvedComponent,
                          LAMBDA t : t.path[1] = <<"radius">> /\ Len(t.path) = 2),
                LAMBDA t : [key |-> t.path[2], val |-> t.value])
    ELSE IF format = "dtcg"
    THEN MapSeq(files.top.tokens[<<"radii">>].tokens,
                LAMBDA t : [key |-> LastSeg(t.path), val |-> t.value])
    ELSE Section(files.top.json[<<"radii">>].data, "radius")

\* How often the text holds sub.
Occurrences(sub, text) ==
    Cardinality({i \in 0..(Len(text) - Len(sub)) :
                   SubSeq(text, i + 1, i + Len(sub)) = sub})

\* The length a number stands for in the stylesheet.
InPx(n) == IF n = 0 THEN <<"0">> ELSE <<ToString(n), "px">>

\* C20: the stylesheet holds the declaration of each radius token with a
\* numeric value n exactly once, with the value npx, or 0 for n = 0, in every
\* format and under every flag.
C20_NumericRadiusInPx ==
    Texted =>
      \A i \in 1..Len(RadiusTokens) :
        RadiusTokens[i].val.k = "num" =>
          Occurrences(cssVar(RadiusTokens[i].key, InPx(RadiusTokens[i].val.n)), css) = 1

\* ---- the converter runs (SpecConvert)

\* The value, white space around it aside, is # and n hex digits, n one of
\* lengths.
IsHex(value, lengths) ==
    /\ trim(value) # <<>>
    /\ trim(value)[1] = "#"
    /\ (Len(trim(value)) - 1) \in lengths
    /\ \A i \in 2..Len(trim(value)) : trim(value)[i] \in HexDigits

\* The alpha byte a #rgba or #rrggbbaa value spells.
AlphaByte(value) ==
    IF Len(trim(value)) = 5
    THEN 17 * HexValue(trim(value)[5])
    ELSE 16 * HexValue(trim(value)[8]) + HexValue(trim(value)[9])

\* That alpha, of 1, rounded to two decimals: the count of hundredths.
AlphaHundredths(value) == (AlphaByte(value) * 200 + 255) \div 510

RECURSIVE FieldsOf(_)
\* The texts a text holds between its blanks.
FieldsOf(t) ==
    IF ~Includes(t, " ") THEN <<t>>
    ELSE LET i == CHOOSE i \in 1..Len(t) : t[i] = " " /\ \A m \in 1..(i - 1) : t[m] # " "
         IN  <<SubSeq(t, 1, i - 1)>> \o FieldsOf(SubSeq(t, i + 1, Len(t)))

\* The fields of an oklch() text: lightness, chroma, hue and, after a slash,
\* alpha.
LchFields(text) == FieldsOf(SubSeq(text, 2, Len(text) - 1))

\* C21: for a #rgba or #rrggbbaa color the converted text has an alpha part
\* exactly when the alpha, rounded to two decimals, is below 1, and the alpha
\* it shows is never 1.
C21_AlphaPartIffRoundedBelowOne ==
    (oklch.called /\ IsHex(color, {4, 8})) =>
      /\ Includes(oklch.text, "/") <=> AlphaHundredths(color) < 100
      /\ Includes(oklch.text, "/") => LchFields(oklch.text)[5] # <<"1">>

\* C22: toOklch returns null for a value that is neither in oklch() syntax
\* nor # and 3, 4, 6 or 8 hex digits, and returns a value in oklch() syntax
\* as it is (white space around a value set aside).
C22_NullUnlessHexOrOklch ==
    oklch.called =>
      /\ (~isOklchValue(color) /\ ~IsHex(color, {3, 4, 6, 8})) => oklch.text = <<>>
      /\ isOklchValue(color) => oklch.text = trim(color)

\* The chroma hexToOklch rounds for a parsed color, in 1/10000.
ChromaOfLab(lab) == round(Hypot(lab[2], lab[3]), 8, 4)

ChromaOfXYZ(xyz) == ChromaOfLab(xyzToOKLab(xyz[1], xyz[2], xyz[3]))

RoundedChroma(parsed) ==
    ChromaOfXYZ(linearRGBToXYZ(srgbToLinear(Over255(parsed[1])),
                               srgbToLinear(Over255(parsed[2])),
                               srgbToLinear(Over255(parsed[3]))))

\* A number of [0, 360) with at most one decimal, as text.
IsHueText(t) ==
    /\ t # <<>>
    /\ t[1] \in {ToString(n) : n \in 0..359}
    /\ \/ Len(t) = 1
       \/ /\ Len(t) = 3
          /\ t[2] = "."
          /\ t[3] \in {ToString(n) : n \in 1..9}

\* C23: #FFFFFF converts to chroma 0 and hue none; a color whose chroma,
\* rounded to four decimals, is below 0.0005 converts to chroma 0 and hue
\* none, every other color to its rounded chroma and a hue of [0, 360).
C23_AchromaticOrHueBelow360 ==
    (oklch.called /\ IsHex(color, {3, 4, 6, 8})) =>
      /\ trim(color) = <<"#", "F", "F", "F", "F", "F", "F">> =>
           /\ LchFields(oklch.text)[2] = <<"0">>
           /\ LchFields(oklch.text)[3] = <<"none">>
      /\ IF RoundedChroma(parseHex(color)) < 5
         THEN /\ LchFields(oklch.text)[2] = <<"0">>
              /\ LchFields(oklch.text)[3] = <<"none">>
         ELSE /\ LchFields(oklch.text)[2] = NumberText(RoundedChroma(parseHex(color)), 4)
              /\ IsHueText(LchFields(oklch.text)[3])

\* ---- the lookup scopes

\* The dot-paths a tier of the source defines.
PathsOfTier(tier) == {DotPath(tier.tokens[i].path) : i \in 1..Len(tier.tokens)}

\* The paths both the primitives and the semantic tier define.
TwiceDefined == PathsOfTier(files.primitives) \cap PathsOfTier(files.semantic)

\* C24: the scopes are searched primitives first: a component token that is
\* an alias of a path which the primitives and the semantic tier both define
\* resolves to what the primitives hold for it.
C24_PrimitivesScopeWins ==
    AllResolved =>
      \A i \in 1..Len(files.component.tokens) :
         (/\ IsFullAlias(files.component.tokens[i].value)
          /\ AliasKey(files.component.tokens[i].value) \in TwiceDefined)
           => resolvedComponent[i].value
                = primitiveRefMap[AliasKey(files.component.tokens[i].value)]

\* The same with the semantic tier's definition in the place of the
\* primitives': what the merged lookup of the code gives.
SemanticDefinitionWins ==
    AllResolved =>
      \A i \in 1..Len(files.component.tokens) :
         (/\ IsFullAlias(files.component.tokens[i].value)
          /\ AliasKey(files.component.tokens[i].value) \in TwiceDefined)
           => resolvedComponent[i].value
                = refMapOf(resolvedSemantic)[AliasKey(files.component.tokens[i].value)]

\* ---- the two alias formats side by side

\* The tokens of the definition files of tokens/, file after file in the
\* order of the generators.
TokensOfDocs(docs) == Flatten(MapSeq(StandardNames, LAMBDA n : docs[n].tokens))

\* No value of tokens is or holds an alias.
AliasFree(tokens) ==
    \A i \in 1..Len(tokens) :
       /\ tokens[i].value.k = "str" => ~HasBrace(tokens[i].value.s)
       /\ tokens[i].value.k = "obj" =>
            \A m \in 1..Len(tokens[i].value.e) :
               tokens[i].value.e[m].val.k = "str" => ~HasBrace(tokens[i].value.e[m].val.s)

\* What the three-tier generators give for allResolved, one result for each
\* generator of the list.
ThreeTierResults(allResolved, oklchOn) ==
    MapSeq(GeneratorList(allResolved),
           LAMBDA g : [name |-> g.name, r |-> RunGenerator(g, oklchOn)])

\* The buckets the loop of assemble fills from them.
ThreeTierRoot(allResolved, oklchOn) ==
    Flatten(MapSeq(ThreeTierResults(allResolved, oklchOn),
                   LAMBDA x : pushed(x.name, x.r.root)))

ThreeTierDark(allResolved, oklchOn) ==
    Flatten(MapSeq(ThreeTierResults(allResolved, oklchOn),
                   LAMBDA x : pushed(x.name, x.r.dark)))

ThreeTierLight(allResolved, oklchOn) ==
    Flatten(MapSeq(ThreeTierResults(allResolved, oklchOn),
                   LAMBDA x : pushed(x.name, x.r.light)))

\* A flat alias run over files that are all there and hold no alias has
\* filled its buckets.
FlatRunAliasFree ==
    /\ format = "dtcg"
    /\ Assembled
    /\ AliasFree(TokensOfDocs(files.top.tokens))

\* C25: the three-tier generators, given in the semantic tier the alias-free
\* tokens of a flat source, fill the root, dark and light buckets with the
\* lines the flat generators fill them with, in the same order.
C25_ThreeTierAsFlat ==
    FlatRunAliasFree =>
      /\ rootVars = ThreeTierRoot(TokensOfDocs(files.top.tokens), OKLCH_ENABLED)
      /\ darkVars = ThreeTierDark(TokensOfDocs(files.top.tokens), OKLCH_ENABLED)
      /\ lightVars = ThreeTierLight(TokensOfDocs(files.top.tokens), OKLCH_ENABLED)

\* Reachable: a flat alias run over alias-free files has filled all three
\* buckets, and its root bucket is the three-tier generators'.
FlatRunAgreeing ==
    /\ FlatRunAliasFree
    /\ darkVars # <<>>
    /\ lightVars # <<>>
    /\ Len(rootVars) > 10
    /\ rootVars = ThreeTierRoot(TokensOfDocs(files.top.tokens), OKLCH_ENABLED)

\* ---- the color-space block

\* A color declaration of the run: its bucket, its property name and the
\* value it declares.
ColorDecl(bucket, name, value) == [bucket |-> bucket, name |-> name, value |-> value]

\* The color declarations of a list of tokens: those of type color.
TokenColorDecls(tokens) ==
    MapSeq(SelectSeq(tokens, LAMBDA t : t.type = "color"),
           LAMBDA t : ColorDecl(ModeBucket(t), JoinedName(t),
                                formatDTCGValue(t.value, t.type)))

\* The color declarations of a section of colors.json.
SectionColorDecls(entries, bucket) ==
    MapSeq(SelectSeq(entries, LAMBDA e : e.val.k = "str"),
           LAMBDA e : ColorDecl(bucket, <<"color", "-">> \o e.key, e.val.s))

\* The color declarations of the run: of the color group and of the groups
\* that are no standard category in the three-tier format, of
\* colors.tokens.json in the flat alias format, of colors.json in the legacy
\* format.
ColorDecls ==
    IF format = "three-tier"
    THEN TokenColorDecls(SelectSeq(resolvedSemantic \o resolvedComponent,
                                   LAMBDA t : \/ t.path[1] = <<"color">>
                                              \/ t.path[1] \notin standardPrefixes))
    ELSE IF format = "dtcg"
    THEN TokenColorDecls(files.top.tokens[<<"colors">>].tokens)
    ELSE SectionColorDecls(Section(files.top.json[<<"colors">>].data, "dark"), "dark")
         \o SectionColorDecls(Section(files.top.json[<<"colors">>].data, "light"), "light")
         \o SectionColorDecls(Section(files.top.json[<<"colors">>].data, "shared"), "root")

\* A value the converter is to convert: # and 3, 4, 6 or 8 hex digits, or a
\* value in oklch() syntax.
Convertible(value) == IsHex(value, {3, 4, 6, 8}) \/ isOklchValue(value)

\* The least index from i on at which text holds the chunk c, 0 if none.
FirstAt(text, c, i) ==
    IF \E j \in i..Len(text) : text[j] = c
    THEN CHOOSE j \in i..Len(text) : text[j] = c /\ \A m \in i..(j - 1) : text[m] # c
    ELSE 0

\* The part of text from its first chunk open to the next chunk close.
Between(text, open, close) ==
    IF FirstAt(text, open, 1) = 0 THEN <<>>
    ELSE SubSeq(text, FirstAt(text, open, 1),
                FirstAt(text, close, FirstAt(text, open, 1)))

\* The color-space block of the stylesheet.
ColorSpaceBlock == Between(css, "@supports (color: oklch(0% 0 0)) {", "}")

\* Its OS-preference fallback for a scheme.
FallbackOf(block, scheme) ==
    IF \E i \in 1..(Len(block) - 1) :
          block[i] = "  @media (prefers-color-scheme: " /\ block[i + 1] = scheme
    THEN LET i == CHOOSE i \in 1..(Len(block) - 1) :
                    block[i] = "  @media (prefers-color-scheme: " /\ block[i + 1] = scheme
         IN  SubSeq(block, i, FirstAt(block, "    }", i))
    ELSE <<>>

\* The parts of the color-space block that belong to a bucket, each with
\* the indent of its lines.
PartsOf(block, bucket) ==
    IF bucket = "root"
    THEN <<[text |-> Between(block, "  :root {", "  }"), indent |-> "    "]>>
    ELSE <<[text |-> Between(block,
                             IF bucket = "dark" THEN "  .dark {" ELSE "  .light {",
                             "  }"),
            indent |-> "    "],
           [text |-> FallbackOf(block, bucket), indent |-> "      "]>>

\* The converted value under the name, then the source value under the name
\* suffixed -hex, on two lines.
PairText(d, indent) ==
    <<indent, "-", "-">> \o d.name \o <<":", " ">> \o toOklch(d.value) \o <<";", "\n">>
    \o <<indent, "-", "-">> \o d.name \o <<"-", "hex", ":", " ">> \o d.value \o <<";">>

\* The start of a line that declares the name or the name suffixed -hex.
NameText(d, indent, suffix) == <<indent, "-", "-">> \o d.name \o suffix \o <<":", " ">>

\* The part holds the pair of the declaration d if d's value is convertible;
\* if not, and no other declaration of decls gives the same name in the same
\* bucket a convertible value, the part declares neither the name nor the
\* name suffixed -hex.
PartHolds(d, decls, part) ==
    IF Convertible(d.value)
    THEN Occurs(PairText(d, part.indent), part.text)
    ELSE \/ \E j \in 1..Len(decls) :
              /\ decls[j].bucket = d.bucket
              /\ decls[j].name = d.name
              /\ Convertible(decls[j].value)
         \/ /\ ~Occurs(NameText(d, part.indent, <<>>), part.text)
            /\ ~Occurs(NameText(d, part.indent, <<"-", "hex">>), part.text)

PartsHold(d, decls, parts) ==
    \A k \in 1..Len(parts) : PartHolds(d, decls, parts[k])

PairsIn(decls, block) ==
    \A i \in 1..Len(decls) :
       PartsHold(decls[i], decls, PartsOf(block, decls[i].bucket))

\* C26: with --oklch the color-space block holds, in the part of its bucket
\* and in that bucket's OS-preference fallback, for every color declaration
\* with a convertible value the converted value under the property's name and
\* right after it the source value under the name suffixed -hex; the block
\* holds no line for a color declaration whose value is not convertible.
C26_ColorSpacePairs ==
    (Texted /\ OKLCH_ENABLED) => PairsIn(ColorDecls, ColorSpaceBlock)

\* A finished run with --oklch whose color declarations are convertible in
\* the root, dark and light bucket and not convertible in one, with the
\* color-space block in its stylesheet.
C26_Witness ==
    /\ pc = "done"
    /\ OKLCH_ENABLED
    /\ ColorSpaceBlock # <<>>
    /\ \A b \in {"root", "dark", "light"} :
         \E i \in 1..Len(ColorDecls) :
            ColorDecls[i].bucket = b /\ Convertible(ColorDecls[i].value)
    /\ \E i \in 1..Len(ColorDecls) : ~Convertible(ColorDecls[i].value)
    /\ Len(allOklchColors) < Len(ColorDecls)

\* ---- the flags and the base part

\* The base part of a stylesheet text: from the opening of the root block to
\* the closing of the light OS-preference fallback.
BasePart(text) ==
    SubSeq(text, FirstAt(text, ":root {", 1),
           FirstAt(text, "  }",
                   FirstAt(text, "@media (prefers-color-scheme: light) {", 1)) + 2)

\* What the generators of the run push to a bucket when they run without
\* --oklch.
RootWithoutFlags ==
    Flatten(MapSeq(generators,
                   LAMBDA g : pushed(g.name, Call(format, g, files, FALSE).r.root)))

DarkWithoutFlags ==
    Flatten(MapSeq(generators,
                   LAMBDA g : pushed(g.name, Call(format, g, files, FALSE).r.dark)))

LightWithoutFlags ==
    Flatten(MapSeq(generators,
                   LAMBDA g : pushed(g.name, Call(format, g, files, FALSE).r.light)))

\* C28: whatever the two flags, the base part of the stylesheet (root, dark
\* and light block and the two OS-preference fallbacks) is the one the same
\* token source gives with both flags off: the flags only append blocks.
C28_FlagsOnlyAppend ==
    Texted =>
      BasePart(css)
        = Join(baseSections(RootWithoutFlags, DarkWithoutFlags, LightWithoutFlags),
               <<"\n">>)

\* A finished run with both flags on whose stylesheet holds the color-space
\* block and the enhancement block after a base part with all three buckets
\* filled.
C28_Witness ==
    /\ pc = "done"
    /\ OKLCH_ENABLED
    /\ MODERN_CSS_ENABLED
    /\ rootVars # <<>> /\ darkVars # <<>> /\ lightVars # <<>>
    /\ CountChunk(css, "@supports (color: oklch(0% 0 0)) {") = 1
    /\ CountChunk(css, "@supports (color: color-mix(in oklch, red, blue)) {") = 1
    /\ Len(BasePart(css)) < Len(css)

\* ---- the names of a block

\* No two tokens of the list have the same path.
UniquePaths(tokens) ==
    \A i, j \in 1..Len(tokens) : i # j => tokens[i].path # tokens[j].path

\* The paths are unique within each tree of the source: each tier, and the
\* definition files of tokens/.
SourcePathsUnique ==
    /\ UniquePaths(files.primitives.tokens)
    /\ UniquePaths(files.semantic.tokens)
    /\ UniquePaths(files.component.tokens)
    /\ UniquePaths(TokensOfDocs(files.top.tokens))

\* No name is declared by two lines of the bucket.
NoNameTwice(bucket) ==
    \A i, j \in 1..Len(bucket) :
       (i < j /\ IsDecl(bucket[i]) /\ IsDecl(bucket[j]))
         => DeclName(bucket[i]) # DeclName(bucket[j])

\* C29: with paths unique within each source tree, no property name is
\* declared twice in the root, the dark or the light block.
C29_NoNameTwiceInABlock ==
    (Assembled /\ SourcePathsUnique) =>
      /\ NoNameTwice(rootVars)
      /\ NoNameTwice(darkVars)
      /\ NoNameTwice(lightVars)

\* The same for the runs in which the semantic and the component tier share
\* no path and no two tokens of sizing.tokens.json share their last segment.
LastSegmentsUnique(tokens) ==
    \A i, j \in 1..Len(tokens) :
       i # j => LastSeg(tokens[i].path) # LastSeg(tokens[j].path)

NoNameTwiceApartFromSharing ==
    (/\ Assembled
     /\ SourcePathsUnique
     /\ UniquePaths(files.semantic.tokens \o files.component.tokens)
     /\ LastSegmentsUnique(files.top.tokens[<<"sizing">>].tokens))
      => /\ NoNameTwice(rootVars)
         /\ NoNameTwice(darkVars)
         /\ NoNameTwice(lightVars)

\* ---- one line for each token

\* The list without the first of its elements that equals t.
RemoveOne(seq, t) ==
    IF \A j \in 1..Len(seq) : seq[j] # t THEN seq
    ELSE SubSeq(seq, 1, FirstAt(seq, t, 1) - 1)
         \o SubSeq(seq, FirstAt(seq, t, 1) + 1, Len(seq))

\* The declaration lines a generator gives, bucket by bucket.
LinesOf(g) ==
    <<RunGenerator(g, FALSE).root, RunGenerator(g, FALSE).dark,
      RunGenerator(g, FALSE).light>>

\* The generator emits for the token t: without t it gives other lines.
EmitsFor(g, t) ==
    LinesOf([g EXCEPT !.tokens = RemoveOne(g.tokens, t)]) # LinesOf(g)

\* The generators of the list that emit for t.
EmittersOf(gens, t) == {k \in 1..Len(gens) : EmitsFor(gens[k], t)}

DeclCount(bucket) == Cardinality({i \in 1..Len(bucket) : IsDecl(bucket[i])})

\* Each token of the list has exactly one generator of gens that emits for it.
OneEmitterEach(gens, tokens) ==
    \A i \in 1..Len(tokens) : Cardinality(EmittersOf(gens, tokens[i])) = 1

\* No token of the list has two.
OneEmitterAtMost(gens, tokens) ==
    \A i \in 1..Len(tokens) : Cardinality(EmittersOf(gens, tokens[i])) <= 1

\* C30: in the three-tier pipeline every token of the resolved semantic and
\* component tiers is emitted by exactly one generator, and the three buckets
\* hold as many declaration lines as there are tokens.
C30_OneLinePerToken ==
    (format = "three-tier" /\ Assembled) =>
      /\ OneEmitterEach(generators, resolvedSemantic \o resolvedComponent)
      /\ DeclCount(rootVars) + DeclCount(darkVars) + DeclCount(lightVars)
           = Len(resolvedSemantic \o resolvedComponent)

\* The half that holds: no token is emitted by two generators, and the
\* buckets hold no more lines than there are tokens.
NoTokenInTwoGenerators ==
    (format = "three-tier" /\ Assembled) =>
      /\ OneEmitterAtMost(generators, resolvedSemantic \o resolvedComponent)
      /\ DeclCount(rootVars) + DeclCount(darkVars) + DeclCount(lightVars)
           <= Len(resolvedSemantic \o resolvedComponent)

\* ---- the rules runs (SpecRules)

\* tokens/ is there and every token file in it that is there parses.
RulesSourceSound ==
    /\ files.top.dir
    /\ \A n \in DOMAIN files.top.json : files.top.json[n].state # "broken"

\* C27: a run of the rules script on an existing tokens directory ends with
\* the rules document written, once, to generated/.design-rules.json.
C27_RulesDocumentWritten ==
    (pc # "rules" /\ RulesSourceSound) =>
      /\ pc = "done"
      /\ Len(rulesFile) = 1

====
